---- MODULE Spec2Model ----
(***************************************************************************)
(* Employee self-service server actions (tasks, goals, timesheets,         *)
(* appraisals, calendar, settings) over a relational store.                *)
(*                                                                         *)
(* Every handler is one action.  Its inputs are the caller identity the    *)
(* Identity Provider resolves, the payload, and the external call (if any) *)
(* that throws during the run.  The store is one variable per table, a     *)
(* function from record id to record.                                      *)
(*                                                                         *)
(* Nullable values are sequences: <<>> is null/undefined, <<v>> is v.      *)
(* Record fields that no handler reads back (title, description,           *)
(* createdAt, updatedAt) are left out of the records.                      *)
(***************************************************************************)
EXTENDS Integers, Sequences, FiniteSets, TLC

VARIABLES
    goals,       \* Goal table: id -> [userId, progress, status]
    tasks,       \* Task table: id -> [assigneeId, status, estimatedHours, actualHours, dueDate]
    timesheets,  \* Timesheet table: id -> [userId, weekStart, weekEnd, totalHours, status]
    entries,     \* TimesheetEntry table: id -> [timesheetId, date, projectId, hours, billable]
    appraisals,  \* AppraisalReview table: id -> [userId, cycleId, status, selfReview, rating, submittedAt]
    users,       \* users table: id -> [preferences, notificationSettings]
    nextId,      \* per table, the id the next created record gets
    now,         \* index into Clock: the value new Date() returns
    lastCall,    \* the last step: [op, caller, args, result]
    budget,      \* steps left in this run
    faulty,      \* whether the store and the platform may throw in this run
    weekIn,      \* week bucketing check: the date given
    weekOut,     \* week bucketing check: <<>> or <<[fn, weekStart, weekEnd]>>
    requests     \* overlapping requests: request -> [op, caller, pc, data, key, found]

store == <<goals, tasks, timesheets, entries, appraisals, users>>
vars == <<goals, tasks, timesheets, entries, appraisals, users, nextId, now,
          lastCall, budget, faulty, weekIn, weekOut, requests>>

(***************************************************************************)
(* Bounds of the model.                                                    *)
(***************************************************************************)
\* steps in one run over every handler of the application
MaxCalls == 2
\* steps in one run over the handlers of a single feature area
MaxAreaCalls == 3
\* steps in one run of a feature area in which external calls may throw
MaxFaultyCalls == 2
\* the week computation is run on every day of this many years, from 2024 on
MaxYears == 2

(***************************************************************************)
(* Identities and the result envelope.                                     *)
(***************************************************************************)
Users == {"u1", "u2"}
\* session?.user?.id is undefined (or empty): no caller identity
NoUser == ""
Callers == Users \cup {NoUser}
\* auth() throws instead of resolving a session
AuthError == "auth-error"

Ok(data) == [success |-> TRUE, error |-> "", raised |-> FALSE, data |-> data]
Fail(msg) == [success |-> FALSE, error |-> msg, raised |-> FALSE, data |-> <<>>]
\* the exception leaves the handler: there is no envelope
Raised == [success |-> FALSE, error |-> "", raised |-> TRUE, data |-> <<>>]

Max2(a, b) == IF a >= b THEN a ELSE b
Min2(a, b) == IF a <= b THEN a ELSE b

(***************************************************************************)
(* Dates.  A Date is its local calendar reading [y, m, d, ms]: year,       *)
(* month 1..12, day of month, millisecond of the day.                      *)
(***************************************************************************)
\* setHours(23, 59, 59, 999)
EndOfDayMs == 23 * 3600000 + 59 * 60000 + 59 * 1000 + 999

IsLeap(y) == (y % 4 = 0 /\ y % 100 # 0) \/ y % 400 = 0

DaysInMonth(y, m) ==
    IF m = 2 THEN (IF IsLeap(y) THEN 29 ELSE 28)
    ELSE IF m \in {4, 6, 9, 11} THEN 30 ELSE 31

\* days from 1970-01-01 to the calendar day (y, m, d)
DayNumber(dt) ==
    LET yy  == IF dt.m <= 2 THEN dt.y - 1 ELSE dt.y
        era == yy \div 400
        yoe == yy - era * 400
        mp  == IF dt.m > 2 THEN dt.m - 3 ELSE dt.m + 9
        doy == (153 * mp + 2) \div 5 + dt.d - 1
        doe == yoe * 365 + yoe \div 4 - yoe \div 100 + doy
    IN  era * 146097 + doe - 719468

\* a.getTime() <= b.getTime() and a.getTime() < b.getTime(): the instants are
\* compared as (day, millisecond of the day), which keeps the numbers in 32 bits
DateLeq(a, b) ==
    \/ DayNumber(a) < DayNumber(b)
    \/ DayNumber(a) = DayNumber(b) /\ a.ms <= b.ms
DateLt(a, b) == DateLeq(a, b) /\ a # b

\* Date.prototype.getDay: 0 = Sunday .. 6 = Saturday (1970-01-01 was a Thursday)
GetDay(dt) == (DayNumber(dt) + 4) % 7

GetDate(dt) == dt.d

\* Date.prototype.setDate(n): day n of the date's month, where n < 1 runs into
\* the months before and n past the month's end into the months after
RECURSIVE SetDate(_, _)
SetDate(dt, n) ==
    IF n < 1 THEN
        LET pm == IF dt.m = 1 THEN 12 ELSE dt.m - 1
            py == IF dt.m = 1 THEN dt.y - 1 ELSE dt.y
        IN  SetDate([dt EXCEPT !.y = py, !.m = pm], n + DaysInMonth(py, pm))
    ELSE IF n > DaysInMonth(dt.y, dt.m) THEN
        LET nm == IF dt.m = 12 THEN 1 ELSE dt.m + 1
            ny == IF dt.m = 12 THEN dt.y + 1 ELSE dt.y
        IN  SetDate([dt EXCEPT !.y = ny, !.m = nm], n - DaysInMonth(dt.y, dt.m))
    ELSE [dt EXCEPT !.d = n]

\* Date.prototype.setHours(h, min, s, ms), as a millisecond of the day
SetHours(dt, ms) == [dt EXCEPT !.ms = ms]

MkDate(y, m, d, ms) == [y |-> y, m |-> m, d |-> d, ms |-> ms]

\* getCurrentTimesheet: week start (Monday) and end (Sunday) of today
getCurrentTimesheetWeek(today) ==
    LET dayOfWeek == GetDay(today)
        weekStart == SetHours(SetDate(today,
                        GetDate(today) - (IF dayOfWeek = 0 THEN 6 ELSE dayOfWeek - 1)), 0)
        weekEnd   == SetHours(SetDate(weekStart, GetDate(weekStart) + 6), EndOfDayMs)
    IN  [weekStart |-> weekStart, weekEnd |-> weekEnd]

\* the week with no case for Sunday, which C10 must tell from the code's
addTimesheetEntryWeekNoSundayCase(entryDate) ==
    LET dayOfWeek == GetDay(entryDate)
        weekStart == SetHours(SetDate(entryDate, GetDate(entryDate) - (dayOfWeek - 1)), 0)
        weekEnd   == SetHours(SetDate(weekStart, GetDate(weekStart) + 6), EndOfDayMs)
    IN  [weekStart |-> weekStart, weekEnd |-> weekEnd]

\* addTimesheetEntry: week start and end of the entry's date
addTimesheetEntryWeek(entryDate) ==
    LET dayOfWeek == GetDay(entryDate)
        weekStart == SetHours(SetDate(entryDate,
                        GetDate(entryDate) - (IF dayOfWeek = 0 THEN 6 ELSE dayOfWeek - 1)), 0)
        weekEnd   == SetHours(SetDate(weekStart, GetDate(weekStart) + 6), EndOfDayMs)
    IN  [weekStart |-> weekStart, weekEnd |-> weekEnd]

(***************************************************************************)
(* The clock and the read-only tables.                                     *)
(***************************************************************************)
\* the instants new Date() returns, in order: a Wednesday and the Monday after
Clock == << MkDate(2025, 1, 1, 10 * 3600000),
            MkDate(2025, 1, 6, 0) >>
Today == Clock[now]

\* one call of a handler: spends one call of the budget and records the call.
\* given is the external call told to throw and fault the one that did: a run
\* that never reaches the call told to throw is the run with no fault
Call(op, caller, args, given, fault, result) ==
    /\ budget > 0
    /\ fault = given
    /\ budget' = budget - 1
    /\ lastCall' = [op |-> op, caller |-> caller, args |-> args, result |-> result]

\* the external calls that may throw in this run, out of those a handler makes
Faults(points) == IF faulty THEN {"none"} \cup points ELSE {"none"}

\* what auth() may do in this run: resolve a user, resolve none, or throw
Sessions == IF faulty THEN Callers \cup {AuthError} ELSE Callers

\* a step of the environment (a manager, the clock), recorded like a call
EnvCall(op, args) == Call(op, NoUser, args, "none", "none", Ok(<<>>))

\* the steps that are no call of a handler
EnvOps == {"none", "approveTimesheet", "completeAppraisal", "tick"}

NoCall == [op |-> "none", caller |-> NoUser, args |-> <<>>, result |-> Ok(<<>>)]

(***************************************************************************)
(* Goals (employee-goals.ts).  A handler is an operator from its inputs    *)
(* and the fault to [result, fault, goals]: the envelope returned, the     *)
(* fault that fired ("none" when the run never reached it) and the table   *)
(* after the call.                                                         *)
(***************************************************************************)
GoalStatuses == {"active", "in-progress", "completed"}

GoalRet(result, fault, gs) == [result |-> result, fault |-> fault, goals |-> gs]

\* a lookup by id alone, which C2 must tell from the code's
findFirstGoalAnyOwner(goalId, userId) ==
    IF goalId \in DOMAIN goals THEN <<goals[goalId]>> ELSE <<>>

\* prisma.goal.findFirst({ where: { id, userId } })
findFirstGoal(goalId, userId) ==
    IF goalId \in DOMAIN goals /\ goals[goalId].userId = userId
    THEN <<goals[goalId]>> ELSE <<>>

getMyGoals(caller, fault) ==
    IF caller = AuthError THEN GoalRet(Fail("Failed to fetch goals"), "none", goals)
    ELSE IF caller = NoUser THEN GoalRet(Fail("Unauthorized"), "none", goals)
    ELSE IF fault = "findMany" THEN GoalRet(Fail("Failed to fetch goals"), fault, goals)
    ELSE GoalRet(Ok({id \in DOMAIN goals : goals[id].userId = caller}), "none", goals)

\* a create that does not look at the session, which C1 must tell from the code's
createGoalNoSessionCheck(caller, fault) ==
    LET goal == [userId |-> caller, progress |-> 0, status |-> "active"]
    IN  GoalRet(Ok(<<goal>>), "none",
                [id \in DOMAIN goals \cup {nextId.goal} |->
                    IF id = nextId.goal THEN goal ELSE goals[id]])

createGoal(caller, fault) ==
    IF caller = AuthError THEN GoalRet(Fail("Failed to create goal"), "none", goals)
    ELSE IF caller = NoUser THEN GoalRet(Fail("Unauthorized"), "none", goals)
    ELSE IF fault = "create" THEN GoalRet(Fail("Failed to create goal"), fault, goals)
    ELSE
        LET goal == [userId |-> caller, progress |-> 0, status |-> "active"]
            gs   == [id \in DOMAIN goals \cup {nextId.goal} |->
                        IF id = nextId.goal THEN goal ELSE goals[id]]
        IN  IF fault = "revalidate"
            THEN GoalRet(Fail("Failed to create goal"), fault, gs)
            ELSE GoalRet(Ok(<<goal>>), "none", gs)

\* prisma.goal.update({ data }): a field that is undefined is left as it is
ApplyGoalData(goal, data) ==
    [goal EXCEPT !.progress = IF data.progress = <<>> THEN @ ELSE data.progress[1],
                 !.status   = IF data.status = <<>> THEN @ ELSE data.status[1]]

updateGoal(caller, goalId, data, fault) ==
    IF caller = AuthError THEN GoalRet(Fail("Failed to update goal"), "none", goals)
    ELSE IF caller = NoUser THEN GoalRet(Fail("Unauthorized"), "none", goals)
    ELSE IF fault = "findFirst" THEN GoalRet(Fail("Failed to update goal"), fault, goals)
    ELSE IF findFirstGoal(goalId, caller) = <<>>
    THEN GoalRet(Fail("Goal not found or access denied"), "none", goals)
    ELSE IF fault = "update" THEN GoalRet(Fail("Failed to update goal"), fault, goals)
    ELSE
        LET gs == [goals EXCEPT ![goalId] = ApplyGoalData(@, data)]
        IN  IF fault = "revalidate"
            THEN GoalRet(Fail("Failed to update goal"), fault, gs)
            ELSE GoalRet(Ok(<<gs[goalId]>>), "none", gs)

\* a clamp with no lower bound, which C8 must tell from the code's
ClampProgressAboveOnly(progress) == Min2(100, progress)

\* Math.max(0, Math.min(100, progress))
ClampProgress(progress) == Max2(0, Min2(100, progress))

\* a derivation that sends a goal back to 'active' at progress 0, which C9 must
\* tell from the code's
DeriveGoalStatusDemoting(validProgress, status) ==
    IF validProgress >= 100 THEN "completed"
    ELSE IF validProgress > 0 /\ status = "active" THEN "in-progress"
    ELSE IF validProgress = 0 THEN "active"
    ELSE status

\* the status updateGoalProgress derives from the clamped progress
DeriveGoalStatus(validProgress, status) ==
    IF validProgress >= 100 THEN "completed"
    ELSE IF validProgress > 0 /\ status = "active" THEN "in-progress"
    ELSE status

updateGoalProgress(caller, goalId, progress, fault) ==
    IF caller = AuthError THEN GoalRet(Fail("Failed to update progress"), "none", goals)
    ELSE IF caller = NoUser THEN GoalRet(Fail("Unauthorized"), "none", goals)
    ELSE IF fault = "findFirst" THEN GoalRet(Fail("Failed to update progress"), fault, goals)
    ELSE IF findFirstGoal(goalId, caller) = <<>>
    THEN GoalRet(Fail("Goal not found or access denied"), "none", goals)
    ELSE
        LET goal          == findFirstGoal(goalId, caller)[1]
            validProgress == ClampProgress(progress)
            status        == DeriveGoalStatus(validProgress, goal.status)
            gs == [goals EXCEPT ![goalId] =
                      [@ EXCEPT !.progress = validProgress, !.status = status]]
        IN  IF fault = "update"
            THEN GoalRet(Fail("Failed to update progress"), fault, goals)
            ELSE IF fault = "revalidate"
            THEN GoalRet(Fail("Failed to update progress"), fault, gs)
            ELSE GoalRet(Ok(<<gs[goalId]>>), "none", gs)

deleteGoal(caller, goalId, fault) ==
    IF caller = AuthError THEN GoalRet(Fail("Failed to delete goal"), "none", goals)
    ELSE IF caller = NoUser THEN GoalRet(Fail("Unauthorized"), "none", goals)
    ELSE IF fault = "findFirst" THEN GoalRet(Fail("Failed to delete goal"), fault, goals)
    ELSE IF findFirstGoal(goalId, caller) = <<>>
    THEN GoalRet(Fail("Goal not found or access denied"), "none", goals)
    ELSE IF fault = "delete" THEN GoalRet(Fail("Failed to delete goal"), fault, goals)
    ELSE
        LET gs == [id \in DOMAIN goals \ {goalId} |-> goals[id]]
        IN  IF fault = "revalidate"
            THEN GoalRet(Fail("Failed to delete goal"), fault, gs)
            ELSE GoalRet(Ok(<<>>), "none", gs)

\* Math.round of a non-negative quotient p / q
RoundDiv(p, q) == (2 * p + q) \div (2 * q)

\* goals.reduce((sum, g) => sum + g.progress, 0)
RECURSIVE SumProgress(_, _)
SumProgress(gs, ids) ==
    IF ids = {} THEN 0
    ELSE LET id == CHOOSE x \in ids : TRUE IN gs[id].progress + SumProgress(gs, ids \ {id})

\* a statistics query that writes while it counts, which C19 must tell from the
\* code's
getGoalStatsWriting(caller, fault) ==
    IF caller \notin Users THEN GoalRet(Fail("Unauthorized"), "none", goals)
    ELSE LET mine == {id \in DOMAIN goals : goals[id].userId = caller}
         IN  GoalRet(Ok([total |-> Cardinality(mine)]), "none",
                     [id \in DOMAIN goals |->
                         IF id \in mine THEN [goals[id] EXCEPT !.status = "completed"]
                         ELSE goals[id]])

getGoalStats(caller, fault) ==
    IF caller = AuthError THEN GoalRet(Fail("Failed to fetch goal statistics"), "none", goals)
    ELSE IF caller = NoUser THEN GoalRet(Fail("Unauthorized"), "none", goals)
    ELSE IF fault \in {"count", "findMany"}
    THEN GoalRet(Fail("Failed to fetch goal statistics"), fault, goals)
    ELSE
        LET mine == {id \in DOMAIN goals : goals[id].userId = caller}
            n(st) == Cardinality({id \in mine : goals[id].status = st})
        IN  GoalRet(Ok([total |-> Cardinality(mine), active |-> n("active"),
                        completed |-> n("completed"), inProgress |-> n("in-progress"),
                        avgProgress |-> IF mine = {} THEN 0
                                        ELSE RoundDiv(SumProgress(goals, mine),
                                                      Cardinality(mine))]),
                    "none", goals)

getFilteredGoals(caller, status, fault) ==
    IF caller = AuthError THEN GoalRet(Fail("Failed to fetch filtered goals"), "none", goals)
    ELSE IF caller = NoUser THEN GoalRet(Fail("Unauthorized"), "none", goals)
    ELSE IF fault = "findMany"
    THEN GoalRet(Fail("Failed to fetch filtered goals"), fault, goals)
    ELSE GoalRet(Ok({id \in DOMAIN goals :
                        /\ goals[id].userId = caller
                        /\ (status = <<>> \/ goals[id].status = status[1])}),
                 "none", goals)

\* ids a caller can pass: every id handed out so far and one never handed out
IdInputs(table) == 1 .. nextId[table]

ProgressInputs == {-1, 0, 50, 100, 101}
GoalDataInputs ==
    { [progress |-> <<>>,    status |-> <<>>],
      [progress |-> <<100>>, status |-> <<>>],
      [progress |-> <<150>>, status |-> <<>>],
      [progress |-> <<>>,    status |-> <<"active">>] }

GoalFrame == UNCHANGED <<tasks, timesheets, entries, appraisals, users, now,
                         faulty, weekIn, weekOut, requests>>

GetMyGoals ==
    /\ budget > 0
    /\ \E caller \in Sessions, fault \in Faults({"findMany"}) :
            LET r == getMyGoals(caller, fault) IN
            /\ Call("getMyGoals", caller, <<>>, fault, r.fault, r.result)
            /\ goals' = r.goals
            /\ UNCHANGED nextId
            /\ GoalFrame

CreateGoal ==
    /\ budget > 0
    /\ \E caller \in Sessions, fault \in Faults({"create", "revalidate"}) :
            LET r == createGoal(caller, fault) IN
            /\ Call("createGoal", caller, <<>>, fault, r.fault, r.result)
            /\ goals' = r.goals
            /\ nextId' = IF DOMAIN r.goals = DOMAIN goals THEN nextId
                         ELSE [nextId EXCEPT !.goal = @ + 1]
            /\ GoalFrame

UpdateGoal ==
    /\ budget > 0
    /\ \E caller \in Sessions, goalId \in IdInputs("goal"), data \in GoalDataInputs,
           fault \in Faults({"findFirst", "update", "revalidate"}) :
            LET r == updateGoal(caller, goalId, data, fault) IN
            /\ Call("updateGoal", caller, <<goalId, data>>, fault, r.fault, r.result)
            /\ goals' = r.goals
            /\ UNCHANGED nextId
            /\ GoalFrame

UpdateGoalProgress ==
    /\ budget > 0
    /\ \E caller \in Sessions, goalId \in IdInputs("goal"), progress \in ProgressInputs,
           fault \in Faults({"findFirst", "update", "revalidate"}) :
            LET r == updateGoalProgress(caller, goalId, progress, fault) IN
            /\ Call("updateGoalProgress", caller, <<goalId, progress>>, fault, r.fault, r.result)
            /\ goals' = r.goals
            /\ UNCHANGED nextId
            /\ GoalFrame

DeleteGoal ==
    /\ budget > 0
    /\ \E caller \in Sessions, goalId \in IdInputs("goal"),
           fault \in Faults({"findFirst", "delete", "revalidate"}) :
            LET r == deleteGoal(caller, goalId, fault) IN
            /\ Call("deleteGoal", caller, <<goalId>>, fault, r.fault, r.result)
            /\ goals' = r.goals
            /\ UNCHANGED nextId
            /\ GoalFrame

GetGoalStats ==
    /\ budget > 0
    /\ \E caller \in Sessions, fault \in Faults({"count", "findMany"}) :
            LET r == getGoalStats(caller, fault) IN
            /\ Call("getGoalStats", caller, <<>>, fault, r.fault, r.result)
            /\ goals' = r.goals
            /\ UNCHANGED nextId
            /\ GoalFrame

GetFilteredGoals ==
    /\ budget > 0
    /\ \E caller \in Sessions, status \in {<<>>, <<"completed">>},
           fault \in Faults({"findMany"}) :
            LET r == getFilteredGoals(caller, status, fault) IN
            /\ Call("getFilteredGoals", caller, <<status>>, fault, r.fault, r.result)
            /\ goals' = r.goals
            /\ UNCHANGED nextId
            /\ GoalFrame

GoalActions ==
    \/ GetMyGoals \/ CreateGoal \/ UpdateGoal \/ UpdateGoalProgress
    \/ DeleteGoal \/ GetGoalStats \/ GetFilteredGoals

(***************************************************************************)
(* Timesheets (employee-timesheet.ts).  A handler returns [result, fault,  *)
(* timesheets, entries].                                                   *)
(***************************************************************************)
TsRet(result, fault, tss, es) ==
    [result |-> result, fault |-> fault, timesheets |-> tss, entries |-> es]

\* what a store call throws: an Error with a message, or a value that is no Error
Thrown == { [isError |-> TRUE,  message |-> "connection refused"],
            [isError |-> TRUE,  message |-> "foreign key constraint failed"],
            [isError |-> FALSE, message |-> ""] }

\* a lookup that matches no row, which C15 must tell from the code's
findFirstTimesheetNeverMatching(userId, weekStart) == {<<>>}

\* prisma.timesheet.findFirst({ where: { userId, weekStart } }) has no orderBy:
\* when several rows match, any of them may be the one returned
findFirstTimesheet(userId, weekStart) ==
    LET hit == {id \in DOMAIN timesheets :
                   /\ timesheets[id].userId = userId
                   /\ timesheets[id].weekStart = weekStart}
    IN  IF hit = {} THEN {<<>>} ELSE {<<id>> : id \in hit}

\* prisma.timesheet.create({ data: { userId, weekStart, weekEnd, totalHours: 0, status: DRAFT } })
createTimesheet(tss, userId, week) ==
    [id \in DOMAIN tss \cup {nextId.timesheet} |->
        IF id = nextId.timesheet
        THEN [userId |-> userId, weekStart |-> week.weekStart, weekEnd |-> week.weekEnd,
              totalHours |-> 0, status |-> "DRAFT"]
        ELSE tss[id]]

getCurrentTimesheet(caller, found, fault) ==
    IF caller = AuthError THEN TsRet(Fail("Failed to fetch timesheet"), "none", timesheets, entries)
    ELSE IF caller = NoUser THEN TsRet(Fail("Unauthorized"), "none", timesheets, entries)
    ELSE IF fault = "findFirst"
    THEN TsRet(Fail("Failed to fetch timesheet"), fault, timesheets, entries)
    ELSE IF found # <<>> THEN TsRet(Ok(found), "none", timesheets, entries)
    ELSE IF fault = "createTimesheet"
    THEN TsRet(Fail("Failed to fetch timesheet"), fault, timesheets, entries)
    ELSE TsRet(Ok(<<nextId.timesheet>>), "none",
               createTimesheet(timesheets, caller, getCurrentTimesheetWeek(Today)), entries)

\* prisma.timesheetEntry.aggregate({ where: { timesheetId }, _sum: { hours: true } }):
\* null when no entry matches
RECURSIVE SumOver(_, _)
SumOver(es, ids) ==
    IF ids = {} THEN 0
    ELSE LET id == CHOOSE x \in ids : TRUE IN es[id].hours + SumOver(es, ids \ {id})

aggregateSumHours(es, timesheetId) ==
    LET ids == {id \in DOMAIN es : es[id].timesheetId = timesheetId}
    IN  IF ids = {} THEN <<>> ELSE <<SumOver(es, ids)>>

\* sum || 0
OrZero(sum) == IF sum = <<>> \/ sum[1] = 0 THEN 0 ELSE sum[1]

\* a handler that leaves totalHours as it was, which C3 must tell from the code's
updateTotalHoursSkipped(tss, es, timesheetId) == tss

\* the "Update total hours" step of the three entry handlers
updateTotalHours(tss, es, timesheetId) ==
    [tss EXCEPT ![timesheetId].totalHours = OrZero(aggregateSumHours(es, timesheetId))]

\* what the catch block of addTimesheetEntry returns
AddEntryFailure(thrown) ==
    Fail(IF thrown.isError THEN thrown.message ELSE "Failed to add timesheet entry")

addTimesheetEntry(caller, data, found, fault, thrown) ==
    IF caller = AuthError THEN TsRet(AddEntryFailure(thrown), "none", timesheets, entries)
    ELSE IF caller = NoUser THEN TsRet(Fail("Unauthorized"), "none", timesheets, entries)
    ELSE IF data.date = <<>> THEN TsRet(Fail("Date is required"), "none", timesheets, entries)
    ELSE IF data.projectId = ""
    THEN TsRet(Fail("Project is required"), "none", timesheets, entries)
    ELSE IF data.hours = 0 \/ data.hours <= 0 \/ data.hours > 24
    THEN TsRet(Fail("Hours must be between 0 and 24"), "none", timesheets, entries)
    ELSE IF fault = "findFirst" THEN TsRet(AddEntryFailure(thrown), fault, timesheets, entries)
    ELSE IF found = <<>> /\ fault = "createTimesheet"
    THEN TsRet(AddEntryFailure(thrown), fault, timesheets, entries)
    ELSE
        LET week == addTimesheetEntryWeek(data.date[1])
            tss1 == IF found = <<>> THEN createTimesheet(timesheets, caller, week)
                    ELSE timesheets
            tsId == IF found = <<>> THEN nextId.timesheet ELSE found[1]
            entry == [timesheetId |-> tsId, date |-> data.date[1],
                      projectId |-> data.projectId, hours |-> data.hours,
                      billable |-> IF data.billable = <<>> THEN FALSE ELSE data.billable[1]]
            es1  == [id \in DOMAIN entries \cup {nextId.entry} |->
                        IF id = nextId.entry THEN entry ELSE entries[id]]
            tss2 == updateTotalHours(tss1, es1, tsId)
        IN  IF tss1[tsId].status = "APPROVED"
            THEN TsRet(Fail("Cannot edit approved timesheet"), "none", tss1, entries)
            ELSE IF fault = "createEntry"
            THEN TsRet(AddEntryFailure(thrown), fault, tss1, entries)
            ELSE IF fault = "aggregate"
            THEN TsRet(AddEntryFailure(thrown), fault, tss1, es1)
            ELSE IF fault = "update"
            THEN TsRet(AddEntryFailure(thrown), fault, tss1, es1)
            ELSE IF fault = "revalidate"
            THEN TsRet(AddEntryFailure(thrown), fault, tss2, es1)
            ELSE TsRet(Ok(<<entry>>), "none", tss2, es1)

\* prisma.timesheetEntry.findFirst({ where: { id, timesheet: { userId } }, include: { timesheet } })
findFirstEntry(entryId, userId) ==
    IF /\ entryId \in DOMAIN entries
       /\ entries[entryId].timesheetId \in DOMAIN timesheets
       /\ timesheets[entries[entryId].timesheetId].userId = userId
    THEN <<entries[entryId]>> ELSE <<>>

\* prisma.timesheetEntry.update({ data }): a field that is undefined is left as it is
ApplyEntryData(entry, data) ==
    [entry EXCEPT !.hours    = IF data.hours = <<>> THEN @ ELSE data.hours[1],
                  !.billable = IF data.billable = <<>> THEN @ ELSE data.billable[1]]

updateTimesheetEntry(caller, entryId, data, fault) ==
    IF caller = AuthError THEN TsRet(Fail("Failed to update entry"), "none", timesheets, entries)
    ELSE IF caller = NoUser THEN TsRet(Fail("Unauthorized"), "none", timesheets, entries)
    ELSE IF fault = "findFirst"
    THEN TsRet(Fail("Failed to update entry"), fault, timesheets, entries)
    ELSE IF findFirstEntry(entryId, caller) = <<>>
    THEN TsRet(Fail("Entry not found or access denied"), "none", timesheets, entries)
    ELSE
        LET entry == findFirstEntry(entryId, caller)[1]
            es1   == [entries EXCEPT ![entryId] = ApplyEntryData(@, data)]
            tss1  == updateTotalHours(timesheets, es1, entry.timesheetId)
        IN  IF timesheets[entry.timesheetId].status = "APPROVED"
            THEN TsRet(Fail("Cannot edit approved timesheet"), "none", timesheets, entries)
            ELSE IF fault = "updateEntry"
            THEN TsRet(Fail("Failed to update entry"), fault, timesheets, entries)
            ELSE IF fault \in {"aggregate", "update"}
            THEN TsRet(Fail("Failed to update entry"), fault, timesheets, es1)
            ELSE IF fault = "revalidate"
            THEN TsRet(Fail("Failed to update entry"), fault, tss1, es1)
            ELSE TsRet(Ok(<<es1[entryId]>>), "none", tss1, es1)

\* a delete that does not look at the timesheet's status, which C4 must tell from
\* the code's
deleteTimesheetEntryAnyStatus(caller, entryId, fault) ==
    IF caller \notin Users THEN TsRet(Fail("Unauthorized"), "none", timesheets, entries)
    ELSE IF findFirstEntry(entryId, caller) = <<>>
    THEN TsRet(Fail("Entry not found or access denied"), "none", timesheets, entries)
    ELSE
        LET es1 == [id \in DOMAIN entries \ {entryId} |-> entries[id]]
        IN  TsRet(Ok(<<>>), "none",
                  updateTotalHours(timesheets, es1, entries[entryId].timesheetId), es1)

deleteTimesheetEntry(caller, entryId, fault) ==
    IF caller = AuthError THEN TsRet(Fail("Failed to delete entry"), "none", timesheets, entries)
    ELSE IF caller = NoUser THEN TsRet(Fail("Unauthorized"), "none", timesheets, entries)
    ELSE IF fault = "findFirst"
    THEN TsRet(Fail("Failed to delete entry"), fault, timesheets, entries)
    ELSE IF findFirstEntry(entryId, caller) = <<>>
    THEN TsRet(Fail("Entry not found or access denied"), "none", timesheets, entries)
    ELSE
        LET entry == findFirstEntry(entryId, caller)[1]
            es1   == [id \in DOMAIN entries \ {entryId} |-> entries[id]]
            tss1  == updateTotalHours(timesheets, es1, entry.timesheetId)
        IN  IF timesheets[entry.timesheetId].status = "APPROVED"
            THEN TsRet(Fail("Cannot delete from approved timesheet"), "none",
                       timesheets, entries)
            ELSE IF fault = "deleteEntry"
            THEN TsRet(Fail("Failed to delete entry"), fault, timesheets, entries)
            ELSE IF fault \in {"aggregate", "update"}
            THEN TsRet(Fail("Failed to delete entry"), fault, timesheets, es1)
            ELSE IF fault = "revalidate"
            THEN TsRet(Fail("Failed to delete entry"), fault, tss1, es1)
            ELSE TsRet(Ok(<<>>), "none", tss1, es1)

\* prisma.timesheet.findFirst({ where: { id, userId } })
findFirstTimesheetById(timesheetId, userId) ==
    IF timesheetId \in DOMAIN timesheets /\ timesheets[timesheetId].userId = userId
    THEN <<timesheets[timesheetId]>> ELSE <<>>

\* a submit that does not look at the timesheet's status, which C5 must tell from
\* the code's
submitTimesheetAnyStatus(caller, timesheetId, fault) ==
    IF caller \notin Users THEN TsRet(Fail("Unauthorized"), "none", timesheets, entries)
    ELSE IF findFirstTimesheetById(timesheetId, caller) = <<>>
    THEN TsRet(Fail("Timesheet not found or access denied"), "none", timesheets, entries)
    ELSE
        LET tss1 == [timesheets EXCEPT ![timesheetId].status = "SUBMITTED"]
        IN  TsRet(Ok(<<tss1[timesheetId]>>), "none", tss1, entries)

submitTimesheet(caller, timesheetId, fault) ==
    IF caller = AuthError THEN TsRet(Fail("Failed to submit timesheet"), "none", timesheets, entries)
    ELSE IF caller = NoUser THEN TsRet(Fail("Unauthorized"), "none", timesheets, entries)
    ELSE IF fault = "findFirst"
    THEN TsRet(Fail("Failed to submit timesheet"), fault, timesheets, entries)
    ELSE IF findFirstTimesheetById(timesheetId, caller) = <<>>
    THEN TsRet(Fail("Timesheet not found or access denied"), "none", timesheets, entries)
    ELSE IF findFirstTimesheetById(timesheetId, caller)[1].status # "DRAFT"
    THEN TsRet(Fail("Timesheet is not in draft status"), "none", timesheets, entries)
    ELSE IF fault = "update"
    THEN TsRet(Fail("Failed to submit timesheet"), fault, timesheets, entries)
    ELSE
        LET tss1 == [timesheets EXCEPT ![timesheetId].status = "SUBMITTED"]
        IN  IF fault = "revalidate"
            THEN TsRet(Fail("Failed to submit timesheet"), fault, tss1, entries)
            ELSE TsRet(Ok(<<tss1[timesheetId]>>), "none", tss1, entries)

\* the caller's timesheets, newest week first, at most limit of them
getTimesheetHistory(caller, limit, fault) ==
    IF caller = AuthError
    THEN TsRet(Fail("Failed to fetch timesheet history"), "none", timesheets, entries)
    ELSE IF caller = NoUser THEN TsRet(Fail("Unauthorized"), "none", timesheets, entries)
    ELSE IF fault = "findMany"
    THEN TsRet(Fail("Failed to fetch timesheet history"), fault, timesheets, entries)
    ELSE
        LET mine == {id \in DOMAIN timesheets : timesheets[id].userId = caller}
            newer(id) == {o \in mine : DateLt(timesheets[id].weekStart,
                                               timesheets[o].weekStart)}
        IN  TsRet(Ok({id \in mine : Cardinality(newer(id)) < limit}), "none",
                  timesheets, entries)

\* currentMonth: the first of today's month at 00:00:00.000
StartOfMonth(today) == SetHours(SetDate(today, 1), 0)

getTimesheetStats(caller, fault) ==
    IF caller = AuthError THEN TsRet(Fail("Failed to fetch statistics"), "none", timesheets, entries)
    ELSE IF caller = NoUser THEN TsRet(Fail("Unauthorized"), "none", timesheets, entries)
    ELSE IF fault = "aggregate"
    THEN TsRet(Fail("Failed to fetch statistics"), fault, timesheets, entries)
    ELSE
        LET mine == {id \in DOMAIN entries :
                        /\ entries[id].timesheetId \in DOMAIN timesheets
                        /\ timesheets[entries[id].timesheetId].userId = caller
                        /\ DateLeq(StartOfMonth(Today), entries[id].date)}
            bill == {id \in mine : entries[id].billable}
            totalHours    == IF mine = {} THEN <<>> ELSE <<SumOver(entries, mine)>>
            billableHours == IF bill = {} THEN <<>> ELSE <<SumOver(entries, bill)>>
        IN  TsRet(Ok([totalHours |-> OrZero(totalHours),
                      billableHours |-> OrZero(billableHours),
                      nonBillableHours |-> OrZero(totalHours) - OrZero(billableHours)]),
                  "none", timesheets, entries)

\* the projects table is not written by any handler here: the list is not modelled
getAvailableProjects(caller, fault) ==
    IF caller = AuthError THEN TsRet(Fail("Failed to fetch projects"), "none", timesheets, entries)
    ELSE IF caller = NoUser THEN TsRet(Fail("Unauthorized"), "none", timesheets, entries)
    ELSE IF fault = "findMany"
    THEN TsRet(Fail("Failed to fetch projects"), fault, timesheets, entries)
    ELSE TsRet(Ok(<<>>), "none", timesheets, entries)

\* a manager approves a timesheet (the approval handlers are not in this module's
\* source; the Timesheet lifecycle names the status)
approveTimesheet(timesheetId) ==
    [timesheets EXCEPT ![timesheetId].status = "APPROVED"]

\* payloads of addTimesheetEntry: one per validation failure, three valid ones
\* (a Wednesday, the Sunday of the same week, the Monday after)
AddEntryInputs ==
    { [date |-> <<>>, projectId |-> "p1", hours |-> 8, billable |-> <<>>],
      [date |-> <<MkDate(2025, 1, 1, 0)>>, projectId |-> "", hours |-> 8, billable |-> <<>>],
      [date |-> <<MkDate(2025, 1, 1, 0)>>, projectId |-> "p1", hours |-> 0, billable |-> <<>>],
      [date |-> <<MkDate(2025, 1, 1, 0)>>, projectId |-> "p1", hours |-> 25, billable |-> <<>>],
      [date |-> <<MkDate(2025, 1, 1, 0)>>, projectId |-> "p1", hours |-> 8, billable |-> <<TRUE>>],
      [date |-> <<MkDate(2025, 1, 5, 0)>>, projectId |-> "p1", hours |-> 24, billable |-> <<>>],
      [date |-> <<MkDate(2025, 1, 6, 0)>>, projectId |-> "p1", hours |-> 3, billable |-> <<FALSE>>] }

UpdateEntryInputs ==
    { [hours |-> <<5>>,  billable |-> <<>>],
      [hours |-> <<>>,   billable |-> <<TRUE>>],
      [hours |-> <<0>>,  billable |-> <<>>],
      [hours |-> <<30>>, billable |-> <<>>] }

TsFrame == UNCHANGED <<goals, tasks, appraisals, users, now, faulty, weekIn, weekOut, requests>>

\* the ids after a handler that may have created a timesheet and an entry
TsNextId(r) ==
    [nextId EXCEPT !.timesheet = IF nextId.timesheet \in DOMAIN r.timesheets THEN @ + 1 ELSE @,
                   !.entry     = IF nextId.entry \in DOMAIN r.entries THEN @ + 1 ELSE @]

GetCurrentTimesheet ==
    /\ budget > 0
    /\ \E caller \in Sessions, fault \in Faults({"findFirst", "createTimesheet"}) :
        \E found \in findFirstTimesheet(caller, getCurrentTimesheetWeek(Today).weekStart) :
            LET r == getCurrentTimesheet(caller, found, fault) IN
            /\ Call("getCurrentTimesheet", caller, <<>>, fault, r.fault, r.result)
            /\ timesheets' = r.timesheets
            /\ entries' = r.entries
            /\ nextId' = TsNextId(r)
            /\ TsFrame

AddTimesheetEntry ==
    /\ budget > 0
    /\ \E caller \in Sessions, data \in AddEntryInputs,
           fault \in Faults({"findFirst", "createTimesheet", "createEntry",
                             "aggregate", "update", "revalidate"}) :
        \E thrown \in IF fault = "none" /\ caller # AuthError
                         THEN {CHOOSE t \in Thrown : ~t.isError} ELSE Thrown :
        \E found \in IF data.date = <<>> THEN {<<>>}
                     ELSE findFirstTimesheet(caller, addTimesheetEntryWeek(data.date[1]).weekStart) :
            LET r == addTimesheetEntry(caller, data, found, fault, thrown) IN
            /\ Call("addTimesheetEntry", caller, <<data>>, fault, r.fault, r.result)
            /\ timesheets' = r.timesheets
            /\ entries' = r.entries
            /\ nextId' = TsNextId(r)
            /\ TsFrame

UpdateTimesheetEntry ==
    /\ budget > 0
    /\ \E caller \in Sessions, entryId \in IdInputs("entry"), data \in UpdateEntryInputs,
           fault \in Faults({"findFirst", "updateEntry", "aggregate", "update",
                             "revalidate"}) :
            LET r == updateTimesheetEntry(caller, entryId, data, fault) IN
            /\ Call("updateTimesheetEntry", caller, <<entryId, data>>, fault, r.fault, r.result)
            /\ timesheets' = r.timesheets
            /\ entries' = r.entries
            /\ UNCHANGED nextId
            /\ TsFrame

DeleteTimesheetEntry ==
    /\ budget > 0
    /\ \E caller \in Sessions, entryId \in IdInputs("entry"),
           fault \in Faults({"findFirst", "deleteEntry", "aggregate", "update",
                             "revalidate"}) :
            LET r == deleteTimesheetEntry(caller, entryId, fault) IN
            /\ Call("deleteTimesheetEntry", caller, <<entryId>>, fault, r.fault, r.result)
            /\ timesheets' = r.timesheets
            /\ entries' = r.entries
            /\ UNCHANGED nextId
            /\ TsFrame

SubmitTimesheet ==
    /\ budget > 0
    /\ \E caller \in Sessions, timesheetId \in IdInputs("timesheet"),
           fault \in Faults({"findFirst", "update", "revalidate"}) :
            LET r == submitTimesheet(caller, timesheetId, fault) IN
            /\ Call("submitTimesheet", caller, <<timesheetId>>, fault, r.fault, r.result)
            /\ timesheets' = r.timesheets
            /\ entries' = r.entries
            /\ UNCHANGED nextId
            /\ TsFrame

GetTimesheetHistory ==
    /\ budget > 0
    /\ \E caller \in Sessions, limit \in {1, 10}, fault \in Faults({"findMany"}) :
            LET r == getTimesheetHistory(caller, limit, fault) IN
            /\ Call("getTimesheetHistory", caller, <<limit>>, fault, r.fault, r.result)
            /\ timesheets' = r.timesheets
            /\ entries' = r.entries
            /\ UNCHANGED nextId
            /\ TsFrame

GetTimesheetStats ==
    /\ budget > 0
    /\ \E caller \in Sessions, fault \in Faults({"aggregate"}) :
            LET r == getTimesheetStats(caller, fault) IN
            /\ Call("getTimesheetStats", caller, <<>>, fault, r.fault, r.result)
            /\ timesheets' = r.timesheets
            /\ entries' = r.entries
            /\ UNCHANGED nextId
            /\ TsFrame

GetAvailableProjects ==
    /\ budget > 0
    /\ \E caller \in Sessions, fault \in Faults({"findMany"}) :
            LET r == getAvailableProjects(caller, fault) IN
            /\ Call("getAvailableProjects", caller, <<>>, fault, r.fault, r.result)
            /\ timesheets' = r.timesheets
            /\ entries' = r.entries
            /\ UNCHANGED nextId
            /\ TsFrame

ApproveTimesheet ==
    /\ budget > 0
    /\ \E timesheetId \in DOMAIN timesheets :
            /\ timesheets[timesheetId].status # "APPROVED"
            /\ EnvCall("approveTimesheet", <<timesheetId>>)
            /\ timesheets' = approveTimesheet(timesheetId)
            /\ UNCHANGED <<entries, nextId>>
            /\ TsFrame

\* time passes
Tick ==
    /\ budget > 0
    /\ now < Len(Clock)
    /\ EnvCall("tick", <<>>)
    /\ now' = now + 1
    /\ UNCHANGED <<goals, tasks, timesheets, entries, appraisals, users, nextId,
                   faulty, weekIn, weekOut, requests>>

TimesheetActions ==
    \/ GetCurrentTimesheet \/ AddTimesheetEntry \/ UpdateTimesheetEntry
    \/ DeleteTimesheetEntry \/ SubmitTimesheet \/ GetTimesheetHistory
    \/ GetTimesheetStats \/ GetAvailableProjects

(***************************************************************************)
(* Appraisals (employee-appraisal.ts).  A handler returns [result, fault,  *)
(* appraisals].  Status values are those of AppraisalStatus.               *)
(***************************************************************************)
ApRet(result, fault, aps) == [result |-> result, fault |-> fault, appraisals |-> aps]

\* the appraisal cycles: no handler here writes them.  The one cycle is open
\* at the first instant of Clock and over at the second
Cycles ==
    [c \in {"c1"} |-> [status |-> "IN_PROGRESS",
                       startDate |-> MkDate(2024, 12, 1, 0),
                       endDate |-> MkDate(2025, 1, 5, EndOfDayMs)]]

\* prisma.appraisalCycle.findFirst({ where: { status in [DRAFT, IN_PROGRESS],
\* startDate <= now, endDate >= now } }): any matching cycle, or none
findActiveCycle ==
    LET hit == {c \in DOMAIN Cycles :
                   /\ Cycles[c].status \in {"DRAFT", "IN_PROGRESS"}
                   /\ DateLeq(Cycles[c].startDate, Today)
                   /\ DateLeq(Today, Cycles[c].endDate)}
    IN  IF hit = {} THEN {<<>>} ELSE {<<c>> : c \in hit}

\* prisma.appraisalReview.findFirst({ where: { cycleId, userId } }): any match, or none
findFirstAppraisalOfCycle(cycleId, userId) ==
    LET hit == {id \in DOMAIN appraisals :
                   /\ appraisals[id].cycleId = cycleId
                   /\ appraisals[id].userId = userId}
    IN  IF hit = {} THEN {<<>>} ELSE {<<id>> : id \in hit}

getMyAppraisals(caller, fault) ==
    IF caller = AuthError THEN ApRet(Fail("Failed to fetch appraisals"), "none", appraisals)
    ELSE IF caller = NoUser THEN ApRet(Fail("Unauthorized"), "none", appraisals)
    ELSE IF fault = "findMany" THEN ApRet(Fail("Failed to fetch appraisals"), fault, appraisals)
    ELSE ApRet(Ok({id \in DOMAIN appraisals : appraisals[id].userId = caller}),
               "none", appraisals)

getCurrentAppraisal(caller, activeCycle, found, fault) ==
    IF caller = AuthError
    THEN ApRet(Fail("Failed to fetch current appraisal"), "none", appraisals)
    ELSE IF caller = NoUser THEN ApRet(Fail("Unauthorized"), "none", appraisals)
    ELSE IF fault = "findCycle"
    THEN ApRet(Fail("Failed to fetch current appraisal"), fault, appraisals)
    ELSE IF activeCycle = <<>> THEN ApRet(Ok(<<>>), "none", appraisals)
    ELSE IF fault = "findFirst"
    THEN ApRet(Fail("Failed to fetch current appraisal"), fault, appraisals)
    ELSE IF found # <<>> THEN ApRet(Ok(found), "none", appraisals)
    ELSE IF fault = "create"
    THEN ApRet(Fail("Failed to fetch current appraisal"), fault, appraisals)
    ELSE
        LET appraisal == [userId |-> caller, cycleId |-> activeCycle[1],
                          status |-> "DRAFT", selfReview |-> <<>>, rating |-> <<>>,
                          finalRating |-> <<>>, submittedAt |-> <<>>]
        IN  ApRet(Ok(<<nextId.appraisal>>), "none",
                  [id \in DOMAIN appraisals \cup {nextId.appraisal} |->
                      IF id = nextId.appraisal THEN appraisal ELSE appraisals[id]])

\* prisma.appraisalReview.findFirst({ where: { id, userId } })
findFirstAppraisal(appraisalId, userId) ==
    IF appraisalId \in DOMAIN appraisals /\ appraisals[appraisalId].userId = userId
    THEN <<appraisals[appraisalId]>> ELSE <<>>

\* an update that does not look at the review's status, which C7 must tell from
\* the code's
updateSelfReviewAnyStatus(caller, appraisalId, selfReview, rating, fault) ==
    IF caller \notin Users THEN ApRet(Fail("Unauthorized"), "none", appraisals)
    ELSE IF findFirstAppraisal(appraisalId, caller) = <<>>
    THEN ApRet(Fail("Appraisal not found or access denied"), "none", appraisals)
    ELSE
        LET aps == [appraisals EXCEPT ![appraisalId].selfReview = <<selfReview>>]
        IN  ApRet(Ok(<<aps[appraisalId]>>), "none", aps)

updateSelfReview(caller, appraisalId, selfReview, rating, fault) ==
    IF caller = AuthError THEN ApRet(Fail("Failed to update self-review"), "none", appraisals)
    ELSE IF caller = NoUser THEN ApRet(Fail("Unauthorized"), "none", appraisals)
    ELSE IF fault = "findFirst"
    THEN ApRet(Fail("Failed to update self-review"), fault, appraisals)
    ELSE IF findFirstAppraisal(appraisalId, caller) = <<>>
    THEN ApRet(Fail("Appraisal not found or access denied"), "none", appraisals)
    ELSE IF findFirstAppraisal(appraisalId, caller)[1].status = "COMPLETED"
    THEN ApRet(Fail("Cannot edit completed appraisal"), "none", appraisals)
    ELSE IF fault = "update"
    THEN ApRet(Fail("Failed to update self-review"), fault, appraisals)
    ELSE
        LET aps == [appraisals EXCEPT ![appraisalId] =
                       [@ EXCEPT !.selfReview = <<selfReview>>,
                                 !.rating = IF rating # <<>> THEN rating ELSE @]]
        IN  IF fault = "revalidate"
            THEN ApRet(Fail("Failed to update self-review"), fault, aps)
            ELSE ApRet(Ok(<<aps[appraisalId]>>), "none", aps)

\* a test for null alone, which C6 must tell from the code's
NoSelfReviewNullOnly(selfReview) == selfReview = <<>>

\* !appraisal.selfReview: null and the empty string are both falsy
NoSelfReview(selfReview) == selfReview = <<>> \/ selfReview[1] = ""

submitAppraisal(caller, appraisalId, fault) ==
    IF caller = AuthError THEN ApRet(Fail("Failed to submit appraisal"), "none", appraisals)
    ELSE IF caller = NoUser THEN ApRet(Fail("Unauthorized"), "none", appraisals)
    ELSE IF fault = "findFirst" THEN ApRet(Fail("Failed to submit appraisal"), fault, appraisals)
    ELSE IF findFirstAppraisal(appraisalId, caller) = <<>>
    THEN ApRet(Fail("Appraisal not found or access denied"), "none", appraisals)
    ELSE IF findFirstAppraisal(appraisalId, caller)[1].status # "DRAFT"
    THEN ApRet(Fail("Appraisal is not in draft status"), "none", appraisals)
    ELSE IF NoSelfReview(findFirstAppraisal(appraisalId, caller)[1].selfReview)
    THEN ApRet(Fail("Self-review is required before submission"), "none", appraisals)
    ELSE IF fault = "update" THEN ApRet(Fail("Failed to submit appraisal"), fault, appraisals)
    ELSE
        LET aps == [appraisals EXCEPT ![appraisalId] =
                       [@ EXCEPT !.status = "IN_PROGRESS", !.submittedAt = <<now>>]]
        IN  IF fault = "revalidate"
            THEN ApRet(Fail("Failed to submit appraisal"), fault, aps)
            ELSE ApRet(Ok(<<aps[appraisalId]>>), "none", aps)

RECURSIVE SumFinalRating(_, _)
SumFinalRating(aps, ids) ==
    IF ids = {} THEN 0
    ELSE LET id == CHOOSE x \in ids : TRUE
         IN  aps[id].finalRating[1] + SumFinalRating(aps, ids \ {id})

\* avgRating is reported in tenths: Math.round(avgRating * 10) / 10
getAppraisalStats(caller, fault) ==
    IF caller = AuthError
    THEN ApRet(Fail("Failed to fetch appraisal statistics"), "none", appraisals)
    ELSE IF caller = NoUser THEN ApRet(Fail("Unauthorized"), "none", appraisals)
    ELSE IF fault \in {"count", "findMany"}
    THEN ApRet(Fail("Failed to fetch appraisal statistics"), fault, appraisals)
    ELSE
        LET mine  == {id \in DOMAIN appraisals : appraisals[id].userId = caller}
            n(st) == Cardinality({id \in mine : appraisals[id].status = st})
            rated == {id \in mine : /\ appraisals[id].status = "COMPLETED"
                                    /\ appraisals[id].finalRating # <<>>}
        IN  ApRet(Ok([total |-> Cardinality(mine), draft |-> n("DRAFT"),
                      inProgress |-> n("IN_PROGRESS"), completed |-> n("COMPLETED"),
                      avgRatingTenths |->
                          IF rated = {} THEN 0
                          ELSE RoundDiv(10 * SumFinalRating(appraisals, rated),
                                        Cardinality(rated))]),
                  "none", appraisals)

\* a lookup that answers an absent id in its own words, which C18 must tell from
\* the code's
getAppraisalByIdTellingAbsence(caller, appraisalId, fault) ==
    IF caller \notin Users THEN ApRet(Fail("Unauthorized"), "none", appraisals)
    ELSE IF appraisalId \notin DOMAIN appraisals
    THEN ApRet(Fail("Appraisal not found"), "none", appraisals)
    ELSE IF findFirstAppraisal(appraisalId, caller) = <<>>
    THEN ApRet(Fail("Appraisal not found or access denied"), "none", appraisals)
    ELSE ApRet(Ok(findFirstAppraisal(appraisalId, caller)), "none", appraisals)

getAppraisalById(caller, appraisalId, fault) ==
    IF caller = AuthError THEN ApRet(Fail("Failed to fetch appraisal"), "none", appraisals)
    ELSE IF caller = NoUser THEN ApRet(Fail("Unauthorized"), "none", appraisals)
    ELSE IF fault = "findFirst" THEN ApRet(Fail("Failed to fetch appraisal"), fault, appraisals)
    ELSE IF findFirstAppraisal(appraisalId, caller) = <<>>
    THEN ApRet(Fail("Appraisal not found or access denied"), "none", appraisals)
    ELSE ApRet(Ok(findFirstAppraisal(appraisalId, caller)), "none", appraisals)

\* a manager closes a review with a final rating (the manager's handlers are not in
\* this module's source; the AppraisalReview lifecycle names the status)
completeAppraisal(appraisalId, finalRating) ==
    [appraisals EXCEPT ![appraisalId] =
        [@ EXCEPT !.status = "COMPLETED", !.finalRating = <<finalRating>>]]

ApFrame == UNCHANGED <<goals, tasks, timesheets, entries, users, now, faulty,
                       weekIn, weekOut, requests>>

ApNextId(r) ==
    [nextId EXCEPT !.appraisal = IF nextId.appraisal \in DOMAIN r.appraisals THEN @ + 1 ELSE @]

GetMyAppraisals ==
    /\ budget > 0
    /\ \E caller \in Sessions, fault \in Faults({"findMany"}) :
        LET r == getMyAppraisals(caller, fault) IN
        /\ Call("getMyAppraisals", caller, <<>>, fault, r.fault, r.result)
        /\ appraisals' = r.appraisals
        /\ UNCHANGED nextId
        /\ ApFrame

GetCurrentAppraisal ==
    /\ budget > 0
    /\ \E caller \in Sessions, fault \in Faults({"findCycle", "findFirst", "create"}),
          activeCycle \in findActiveCycle :
        \E found \in IF activeCycle = <<>> THEN {<<>>}
                     ELSE findFirstAppraisalOfCycle(activeCycle[1], caller) :
            LET r == getCurrentAppraisal(caller, activeCycle, found, fault) IN
            /\ Call("getCurrentAppraisal", caller, <<>>, fault, r.fault, r.result)
            /\ appraisals' = r.appraisals
            /\ nextId' = ApNextId(r)
            /\ ApFrame

UpdateSelfReview ==
    /\ budget > 0
    /\ \E caller \in Sessions, appraisalId \in IdInputs("appraisal"),
          selfReview \in {"", "met my goals"}, rating \in {<<>>, <<4>>},
          fault \in Faults({"findFirst", "update", "revalidate"}) :
        LET r == updateSelfReview(caller, appraisalId, selfReview, rating, fault) IN
        /\ Call("updateSelfReview", caller, <<appraisalId, selfReview, rating>>,
                fault, r.fault, r.result)
        /\ appraisals' = r.appraisals
        /\ UNCHANGED nextId
        /\ ApFrame

SubmitAppraisal ==
    /\ budget > 0
    /\ \E caller \in Sessions, appraisalId \in IdInputs("appraisal"),
          fault \in Faults({"findFirst", "update", "revalidate"}) :
        LET r == submitAppraisal(caller, appraisalId, fault) IN
        /\ Call("submitAppraisal", caller, <<appraisalId>>, fault, r.fault, r.result)
        /\ appraisals' = r.appraisals
        /\ UNCHANGED nextId
        /\ ApFrame

GetAppraisalStats ==
    /\ budget > 0
    /\ \E caller \in Sessions, fault \in Faults({"count", "findMany"}) :
        LET r == getAppraisalStats(caller, fault) IN
        /\ Call("getAppraisalStats", caller, <<>>, fault, r.fault, r.result)
        /\ appraisals' = r.appraisals
        /\ UNCHANGED nextId
        /\ ApFrame

GetAppraisalById ==
    /\ budget > 0
    /\ \E caller \in Sessions, appraisalId \in IdInputs("appraisal"),
          fault \in Faults({"findFirst"}) :
        LET r == getAppraisalById(caller, appraisalId, fault) IN
        /\ Call("getAppraisalById", caller, <<appraisalId>>, fault, r.fault, r.result)
        /\ appraisals' = r.appraisals
        /\ UNCHANGED nextId
        /\ ApFrame

CompleteAppraisal ==
    /\ budget > 0
    /\ \E appraisalId \in DOMAIN appraisals, finalRating \in {3} :
        /\ appraisals[appraisalId].status # "COMPLETED"
        /\ EnvCall("completeAppraisal", <<appraisalId>>)
        /\ appraisals' = completeAppraisal(appraisalId, finalRating)
        /\ UNCHANGED nextId
        /\ ApFrame

AppraisalActions ==
    \/ GetMyAppraisals \/ GetCurrentAppraisal \/ UpdateSelfReview
    \/ SubmitAppraisal \/ GetAppraisalStats \/ GetAppraisalById

(***************************************************************************)
(* Tasks (employee-tasks.ts).  A handler returns [result, fault, tasks].   *)
(***************************************************************************)
TkRet(result, fault, tks) == [result |-> result, fault |-> fault, tasks |-> tks]

\* x || null for a number that may be undefined: 0 is falsy too
OrNull(x) == IF x = <<>> \/ x[1] = 0 THEN <<>> ELSE x

createTask(caller, data, fault) ==
    IF caller = AuthError THEN TkRet(Fail("Failed to create task"), "none", tasks)
    ELSE IF caller = NoUser THEN TkRet(Fail("Unauthorized"), "none", tasks)
    ELSE IF fault = "create" THEN TkRet(Fail("Failed to create task"), fault, tasks)
    ELSE
        LET task == [assigneeId |-> caller, status |-> "TODO", dueDate |-> data.dueDate,
                     estimatedHours |-> OrNull(data.estimatedHours),
                     actualHours |-> <<>>]
            tks  == [id \in DOMAIN tasks \cup {nextId.task} |->
                        IF id = nextId.task THEN task ELSE tasks[id]]
        IN  IF fault = "revalidate"
            THEN TkRet(Fail("Failed to create task"), fault, tks)
            ELSE TkRet(Ok(<<task>>), "none", tks)

getMyTasks(caller, fault) ==
    IF caller = AuthError THEN TkRet(Fail("Failed to fetch tasks"), "none", tasks)
    ELSE IF caller = NoUser THEN TkRet(Fail("Unauthorized"), "none", tasks)
    ELSE IF fault = "findMany" THEN TkRet(Fail("Failed to fetch tasks"), fault, tasks)
    ELSE TkRet(Ok({id \in DOMAIN tasks : tasks[id].assigneeId = caller}), "none", tasks)

getMyTaskStats(caller, fault) ==
    IF caller = AuthError THEN TkRet(Fail("Failed to fetch task statistics"), "none", tasks)
    ELSE IF caller = NoUser THEN TkRet(Fail("Unauthorized"), "none", tasks)
    ELSE IF fault = "count" THEN TkRet(Fail("Failed to fetch task statistics"), fault, tasks)
    ELSE
        LET mine == {id \in DOMAIN tasks : tasks[id].assigneeId = caller}
        IN  TkRet(Ok([total |-> Cardinality(mine),
                      inProgress |-> Cardinality({id \in mine : tasks[id].status = "IN_PROGRESS"}),
                      completed |-> Cardinality({id \in mine : tasks[id].status = "DONE"}),
                      overdue |-> Cardinality({id \in mine :
                                     /\ tasks[id].status # "DONE"
                                     /\ tasks[id].dueDate # <<>>
                                     /\ DateLt(tasks[id].dueDate[1], Today)})]),
                  "none", tasks)

\* prisma.task.findFirst({ where: { id, assigneeId } })
findFirstTask(taskId, userId) ==
    IF taskId \in DOMAIN tasks /\ tasks[taskId].assigneeId = userId
    THEN <<tasks[taskId]>> ELSE <<>>

updateTaskStatus(caller, taskId, status, fault) ==
    IF caller = AuthError THEN TkRet(Fail("Failed to update task status"), "none", tasks)
    ELSE IF caller = NoUser THEN TkRet(Fail("Unauthorized"), "none", tasks)
    ELSE IF fault = "findFirst" THEN TkRet(Fail("Failed to update task status"), fault, tasks)
    ELSE IF findFirstTask(taskId, caller) = <<>>
    THEN TkRet(Fail("Task not found or access denied"), "none", tasks)
    ELSE IF fault = "update" THEN TkRet(Fail("Failed to update task status"), fault, tasks)
    ELSE
        LET tks == [tasks EXCEPT ![taskId].status = status]
        IN  IF fault = "revalidate"
            THEN TkRet(Fail("Failed to update task status"), fault, tks)
            ELSE TkRet(Ok(<<tks[taskId]>>), "none", tks)

\* a log that stores the hours given in place of the running total, which C11
\* must tell from the code's
logTaskHoursOverwriting(caller, taskId, hours, fault) ==
    IF caller \notin Users THEN TkRet(Fail("Unauthorized"), "none", tasks)
    ELSE IF findFirstTask(taskId, caller) = <<>>
    THEN TkRet(Fail("Task not found or access denied"), "none", tasks)
    ELSE
        LET tks == [tasks EXCEPT ![taskId].actualHours = <<hours>>]
        IN  TkRet(Ok(<<tks[taskId]>>), "none", tks)

logTaskHours(caller, taskId, hours, fault) ==
    IF caller = AuthError THEN TkRet(Fail("Failed to log hours"), "none", tasks)
    ELSE IF caller = NoUser THEN TkRet(Fail("Unauthorized"), "none", tasks)
    ELSE IF fault = "findFirst" THEN TkRet(Fail("Failed to log hours"), fault, tasks)
    ELSE IF findFirstTask(taskId, caller) = <<>>
    THEN TkRet(Fail("Task not found or access denied"), "none", tasks)
    ELSE IF fault = "update" THEN TkRet(Fail("Failed to log hours"), fault, tasks)
    ELSE
        LET task         == findFirstTask(taskId, caller)[1]
            currentHours == OrZero(task.actualHours)
            tks == [tasks EXCEPT ![taskId].actualHours = <<currentHours + hours>>]
        IN  IF fault = "revalidate"
            THEN TkRet(Fail("Failed to log hours"), fault, tks)
            ELSE TkRet(Ok(<<tks[taskId]>>), "none", tks)

\* the where clause getFilteredTasks builds for a filter, as a predicate on a task
FilterMatches(filter, task) ==
    LET today       == Today
        weekFromNow == SetDate(Today, GetDate(today) + 7)
        due         == task.dueDate
    IN  CASE filter = "today" ->
                /\ due # <<>>
                /\ DateLeq(SetHours(today, 0), due[1])
                /\ DateLeq(due[1], SetHours(today, EndOfDayMs))
          [] filter = "week" ->
                due # <<>> /\ DateLeq(today, due[1]) /\ DateLeq(due[1], weekFromNow)
          [] filter = "overdue" ->
                due # <<>> /\ DateLt(due[1], today) /\ task.status # "DONE"
          [] filter = "blocked" -> task.status = "BLOCKED"
          [] OTHER -> TRUE

getFilteredTasks(caller, filter, fault) ==
    IF caller = AuthError THEN TkRet(Fail("Failed to fetch filtered tasks"), "none", tasks)
    ELSE IF caller = NoUser THEN TkRet(Fail("Unauthorized"), "none", tasks)
    ELSE IF fault = "findMany" THEN TkRet(Fail("Failed to fetch filtered tasks"), fault, tasks)
    ELSE TkRet(Ok({id \in DOMAIN tasks : /\ tasks[id].assigneeId = caller
                                         /\ FilterMatches(filter, tasks[id])}),
               "none", tasks)

CreateTaskInputs ==
    { [dueDate |-> <<>>, estimatedHours |-> <<5>>],
      [dueDate |-> <<MkDate(2025, 1, 3, 9 * 3600000)>>, estimatedHours |-> <<>>],
      [dueDate |-> <<MkDate(2024, 12, 20, 0)>>, estimatedHours |-> <<0>>] }
TaskStatusInputs == {"IN_PROGRESS", "BLOCKED", "DONE"}
LogHoursInputs == {2, 3, -4}
TaskFilterInputs == {"today", "week", "overdue", "blocked", "all"}

TkFrame == UNCHANGED <<goals, timesheets, entries, appraisals, users, now, faulty,
                       weekIn, weekOut, requests>>

CreateTask ==
    /\ budget > 0
    /\ \E caller \in Sessions, data \in CreateTaskInputs,
          fault \in Faults({"create", "revalidate"}) :
        LET r == createTask(caller, data, fault) IN
        /\ Call("createTask", caller, <<data>>, fault, r.fault, r.result)
        /\ tasks' = r.tasks
        /\ nextId' = IF nextId.task \in DOMAIN r.tasks
                     THEN [nextId EXCEPT !.task = @ + 1] ELSE nextId
        /\ TkFrame

GetMyTasks ==
    /\ budget > 0
    /\ \E caller \in Sessions, fault \in Faults({"findMany"}) :
        LET r == getMyTasks(caller, fault) IN
        /\ Call("getMyTasks", caller, <<>>, fault, r.fault, r.result)
        /\ tasks' = r.tasks
        /\ UNCHANGED nextId
        /\ TkFrame

GetMyTaskStats ==
    /\ budget > 0
    /\ \E caller \in Sessions, fault \in Faults({"count"}) :
        LET r == getMyTaskStats(caller, fault) IN
        /\ Call("getMyTaskStats", caller, <<>>, fault, r.fault, r.result)
        /\ tasks' = r.tasks
        /\ UNCHANGED nextId
        /\ TkFrame

UpdateTaskStatus ==
    /\ budget > 0
    /\ \E caller \in Sessions, taskId \in IdInputs("task"), status \in TaskStatusInputs,
          fault \in Faults({"findFirst", "update", "revalidate"}) :
        LET r == updateTaskStatus(caller, taskId, status, fault) IN
        /\ Call("updateTaskStatus", caller, <<taskId, status>>, fault, r.fault, r.result)
        /\ tasks' = r.tasks
        /\ UNCHANGED nextId
        /\ TkFrame

LogTaskHours ==
    /\ budget > 0
    /\ \E caller \in Sessions, taskId \in IdInputs("task"), hours \in LogHoursInputs,
          fault \in Faults({"findFirst", "update", "revalidate"}) :
        LET r == logTaskHours(caller, taskId, hours, fault) IN
        /\ Call("logTaskHours", caller, <<taskId, hours>>, fault, r.fault, r.result)
        /\ tasks' = r.tasks
        /\ UNCHANGED nextId
        /\ TkFrame

GetFilteredTasks ==
    /\ budget > 0
    /\ \E caller \in Sessions, filter \in TaskFilterInputs, fault \in Faults({"findMany"}) :
        LET r == getFilteredTasks(caller, filter, fault) IN
        /\ Call("getFilteredTasks", caller, <<filter>>, fault, r.fault, r.result)
        /\ tasks' = r.tasks
        /\ UNCHANGED nextId
        /\ TkFrame

TaskActions ==
    \/ CreateTask \/ GetMyTasks \/ GetMyTaskStats \/ UpdateTaskStatus
    \/ LogTaskHours \/ GetFilteredTasks

(***************************************************************************)
(* Settings (settings.ts).  A handler returns [result, fault, users].      *)
(* auth() is called before the try block: what it throws leaves the        *)
(* handler.                                                                *)
(***************************************************************************)
StRet(result, fault, us) == [result |-> result, fault |-> fault, users |-> us]

\* s || fallback for a string that may be undefined: "" is falsy too
StrOr(s, fallback) == IF s = <<>> \/ s[1] = "" THEN fallback ELSE s[1]

\* b ?? fallback
BoolOr(b, fallback) == IF b = <<>> THEN fallback ELSE b[1]

\* UPDATE "users" SET column = value WHERE "id" = userId: no row, no change
executeRawUpdate(us, userId, column, value) ==
    [u \in DOMAIN us |-> IF u = userId THEN [us[u] EXCEPT ![column] = <<value>>] ELSE us[u]]

updateUserPreferences(caller, payload, fault) ==
    IF caller = AuthError THEN StRet(Raised, "none", users)
    ELSE IF caller = NoUser THEN StRet(Fail("Unauthorized"), "none", users)
    ELSE
        LET preferencesData == [theme |-> StrOr(payload.theme, "light"),
                                language |-> StrOr(payload.language, "English"),
                                timezone |-> StrOr(payload.timezone, "UTC")]
            us == executeRawUpdate(users, caller, "preferences", preferencesData)
        IN  IF fault = "executeRaw"
            THEN StRet(Fail("Failed to update preferences"), fault, users)
            ELSE IF fault = "revalidate"
            THEN StRet(Fail("Failed to update preferences"), fault, us)
            ELSE StRet(Ok(<<preferencesData>>), "none", us)

updateNotificationSettings(caller, payload, fault) ==
    IF caller = AuthError THEN StRet(Raised, "none", users)
    ELSE IF caller = NoUser THEN StRet(Fail("Unauthorized"), "none", users)
    ELSE
        LET notificationData ==
                [emailNotifications |-> BoolOr(payload.emailNotifications, TRUE),
                 projectUpdates |-> BoolOr(payload.projectUpdates, TRUE),
                 teamActivity |-> BoolOr(payload.teamActivity, TRUE),
                 loginAlerts |-> BoolOr(payload.loginAlerts, TRUE)]
            us == executeRawUpdate(users, caller, "notificationSettings", notificationData)
        IN  IF fault = "executeRaw"
            THEN StRet(Fail("Failed to update notification settings"), fault, users)
            ELSE IF fault = "revalidate"
            THEN StRet(Fail("Failed to update notification settings"), fault, us)
            ELSE StRet(Ok(<<notificationData>>), "none", us)

\* "Add delete logic here when ready": the try block holds the return alone
deleteUserAccount(caller) ==
    IF caller = AuthError THEN StRet(Raised, "none", users)
    ELSE IF caller = NoUser THEN StRet(Fail("Unauthorized"), "none", users)
    ELSE StRet(Ok([message |-> "Account deleted successfully"]), "none", users)

PreferenceInputs ==
    { [theme |-> <<>>, language |-> <<>>, timezone |-> <<>>],
      [theme |-> <<"dark">>, language |-> <<"">>, timezone |-> <<"Asia/Kolkata">>] }
NotificationInputs ==
    { [emailNotifications |-> <<>>, projectUpdates |-> <<>>, teamActivity |-> <<>>,
       loginAlerts |-> <<>>],
      [emailNotifications |-> <<FALSE>>, projectUpdates |-> <<TRUE>>, teamActivity |-> <<>>,
       loginAlerts |-> <<FALSE>>] }

StFrame == UNCHANGED <<goals, tasks, timesheets, entries, appraisals, nextId, now, faulty,
                       weekIn, weekOut, requests>>

UpdateUserPreferences ==
    /\ budget > 0
    /\ \E caller \in Sessions, payload \in PreferenceInputs,
          fault \in Faults({"executeRaw", "revalidate"}) :
        LET r == updateUserPreferences(caller, payload, fault) IN
        /\ Call("updateUserPreferences", caller, <<payload>>, fault, r.fault, r.result)
        /\ users' = r.users
        /\ StFrame

UpdateNotificationSettings ==
    /\ budget > 0
    /\ \E caller \in Sessions, payload \in NotificationInputs,
          fault \in Faults({"executeRaw", "revalidate"}) :
        LET r == updateNotificationSettings(caller, payload, fault) IN
        /\ Call("updateNotificationSettings", caller, <<payload>>, fault, r.fault, r.result)
        /\ users' = r.users
        /\ StFrame

DeleteUserAccount ==
    /\ budget > 0
    /\ \E caller \in Sessions :
        LET r == deleteUserAccount(caller) IN
        /\ Call("deleteUserAccount", caller, <<>>, "none", r.fault, r.result)
        /\ users' = r.users
        /\ StFrame

SettingsActions ==
    \/ UpdateUserPreferences \/ UpdateNotificationSettings \/ DeleteUserAccount

(***************************************************************************)
(* Calendar (employee-calendar.ts).  The handlers read and write nothing:  *)
(* each returns its result only.  PTO requests are written by handlers     *)
(* outside this code, so the table is a fixed one.                         *)
(***************************************************************************)
PTORequests ==
    << [userId |-> "u1", status |-> "APPROVED",
        startDate |-> MkDate(2025, 1, 2, 0), endDate |-> MkDate(2025, 1, 4, 0)],
       [userId |-> "u1", status |-> "PENDING",
        startDate |-> MkDate(2025, 1, 6, 0), endDate |-> MkDate(2025, 1, 7, 0)],
       [userId |-> "u2", status |-> "APPROVED",
        startDate |-> MkDate(2024, 12, 30, 0), endDate |-> MkDate(2025, 1, 20, 0)] >>

\* new Date(year, monthIndex, day, ...ms): month index from 0, out-of-range parts roll over
NewDate(year, monthIndex, day, ms) ==
    SetDate(MkDate(year + monthIndex \div 12, (monthIndex % 12) + 1, 1, ms), day)

\* new Date(d.getTime() + n * 24 * 60 * 60 * 1000)
AddDays(dt, n) == SetDate(dt, GetDate(dt) + n)

InWindow(dt, start, end) == DateLeq(start, dt) /\ DateLeq(dt, end)

\* the ids of a set in ascending order
RECURSIVE IdSeq(_)
IdSeq(ids) ==
    IF ids = {} THEN <<>>
    ELSE LET least == CHOOSE i \in ids : \A j \in ids : i <= j
         IN  <<least>> \o IdSeq(ids \ {least})

\* the while loop of the PTO flatMap: one event a day of the span inside the window
RECURSIVE ExpandPTO(_, _, _, _)
ExpandPTO(ptoId, currentDate, start, end) ==
    IF ~DateLeq(currentDate, PTORequests[ptoId].endDate) THEN <<>>
    ELSE (IF InWindow(currentDate, start, end)
          THEN << [type |-> "pto", ref |-> ptoId, date |-> currentDate] >>
          ELSE <<>>)
         \o ExpandPTO(ptoId, AddDays(currentDate, 1), start, end)

RECURSIVE FlatMapPTO(_, _, _)
FlatMapPTO(ptoIds, start, end) ==
    IF ptoIds = <<>> THEN <<>>
    ELSE ExpandPTO(Head(ptoIds), PTORequests[Head(ptoIds)].startDate, start, end)
         \o FlatMapPTO(Tail(ptoIds), start, end)

\* events.sort((a, b) => a.date.getTime() - b.date.getTime()): a stable sort
RECURSIVE InsertEvent(_, _)
InsertEvent(sorted, ev) ==
    IF sorted = <<>> THEN <<ev>>
    ELSE IF DateLeq(sorted[Len(sorted)].date, ev.date) THEN Append(sorted, ev)
    ELSE Append(InsertEvent(SubSeq(sorted, 1, Len(sorted) - 1), ev), sorted[Len(sorted)])

\* the events in the order they were fetched, which C12 must tell from the code's
SortEventsSkipped(events) == events

RECURSIVE SortEvents(_)
SortEvents(events) ==
    IF events = <<>> THEN <<>>
    ELSE InsertEvent(SortEvents(SubSeq(events, 1, Len(events) - 1)), events[Len(events)])

\* include: { cycle: ... }
CycleOf(cycleId) == Cycles[cycleId]

\* new Date(s) of an unparseable string: the Invalid Date, which no query accepts
InvalidDate == MkDate(0, 0, 0, 0)

getMyCalendarEvents(caller, startDate, endDate, fault) ==
    IF caller = AuthError THEN Fail("Failed to fetch calendar events")
    ELSE IF caller = NoUser THEN Fail("Unauthorized")
    ELSE IF fault \in {"findTasks", "findAppraisals", "findPTO"}
    THEN Fail("Failed to fetch calendar events")
    ELSE IF startDate = <<InvalidDate>> \/ endDate = <<InvalidDate>>
    THEN Fail("Failed to fetch calendar events")
    ELSE
        LET start == IF startDate = <<>> THEN Today ELSE startDate[1]
            end   == IF endDate = <<>> THEN AddDays(start, 30) ELSE endDate[1]
            taskIds == {id \in DOMAIN tasks :
                          /\ tasks[id].assigneeId = caller
                          /\ tasks[id].dueDate # <<>>
                          /\ InWindow(tasks[id].dueDate[1], start, end)}
            appraisalIds == {id \in DOMAIN appraisals :
                          /\ appraisals[id].userId = caller
                          /\ InWindow(CycleOf(appraisals[id].cycleId).endDate, start, end)}
            ptoIds == {id \in DOMAIN PTORequests :
                          /\ PTORequests[id].userId = caller
                          /\ PTORequests[id].status = "APPROVED"
                          /\ \/ InWindow(PTORequests[id].startDate, start, end)
                             \/ InWindow(PTORequests[id].endDate, start, end)}
            taskEvents == [i \in 1 .. Cardinality(taskIds) |->
                             [type |-> "task", ref |-> IdSeq(taskIds)[i],
                              date |-> tasks[IdSeq(taskIds)[i]].dueDate[1]]]
            appraisalEvents == [i \in 1 .. Cardinality(appraisalIds) |->
                             [type |-> "appraisal", ref |-> IdSeq(appraisalIds)[i],
                              date |-> CycleOf(appraisals[IdSeq(appraisalIds)[i]].cycleId).endDate]]
            ptoEvents == FlatMapPTO(IdSeq(ptoIds), start, end)
        IN  Ok(SortEvents(taskEvents \o appraisalEvents \o ptoEvents))

getEventsForDate(caller, date, fault) ==
    IF caller = AuthError THEN Fail("Failed to fetch events for date")
    ELSE IF caller = NoUser THEN Fail("Unauthorized")
    ELSE IF date = InvalidDate
    THEN getMyCalendarEvents(caller, <<InvalidDate>>, <<InvalidDate>>, fault)
    ELSE getMyCalendarEvents(caller, <<SetHours(date, 0)>>, <<SetHours(date, EndOfDayMs)>>,
                             fault)

getUpcomingEvents(caller, fault) ==
    IF caller = AuthError THEN Fail("Failed to fetch upcoming events")
    ELSE IF caller = NoUser THEN Fail("Unauthorized")
    ELSE
        LET today    == SetHours(Today, 0)
            nextWeek == SetHours(SetDate(today, GetDate(today) + 7), EndOfDayMs)
        IN  getMyCalendarEvents(caller, <<today>>, <<nextWeek>>, fault)

getMonthEvents(caller, year, month, fault) ==
    IF caller = AuthError THEN Fail("Failed to fetch month events")
    ELSE IF caller = NoUser THEN Fail("Unauthorized")
    ELSE
        LET startOfMonth == NewDate(year, month, 1, 0)
            endOfMonth   == NewDate(year, month + 1, 0, EndOfDayMs)
        IN  getMyCalendarEvents(caller, <<startOfMonth>>, <<endOfMonth>>, fault)

getCalendarStats(caller, fault) ==
    IF caller = AuthError THEN Fail("Failed to fetch calendar statistics")
    ELSE IF caller = NoUser THEN Fail("Unauthorized")
    ELSE IF fault = "count" THEN Fail("Failed to fetch calendar statistics")
    ELSE
        LET today    == SetHours(Today, 0)
            nextWeek == SetDate(today, GetDate(today) + 7)
            due(lo, hi) == {id \in DOMAIN tasks :
                              /\ tasks[id].assigneeId = caller
                              /\ tasks[id].dueDate # <<>>
                              /\ InWindow(tasks[id].dueDate[1], lo, hi)}
        IN  Ok([todayTasks |-> Cardinality(due(today, SetHours(today, EndOfDayMs))),
                weekTasks |-> Cardinality(due(today, nextWeek)),
                upcomingDeadlines |-> Cardinality({id \in due(today, nextWeek) :
                                                     tasks[id].status # "DONE"})])

checkPTOForDate(caller, date, found, fault) ==
    IF caller = AuthError THEN Fail("Failed to check PTO")
    ELSE IF caller = NoUser THEN Fail("Unauthorized")
    ELSE IF date = InvalidDate \/ fault = "findFirst" THEN Fail("Failed to check PTO")
    ELSE IF found = <<>> THEN Ok([hasPTO |-> FALSE])
    ELSE Ok([hasPTO |-> TRUE, pto |-> found[1]])

\* prisma.pTORequest.findFirst without orderBy: any matching row, or none when none matches
findFirstPTO(userId, targetDate) ==
    LET matching == {id \in DOMAIN PTORequests :
                        /\ PTORequests[id].userId = userId
                        /\ PTORequests[id].status = "APPROVED"
                        /\ targetDate # InvalidDate
                        /\ DateLeq(PTORequests[id].startDate, targetDate)
                        /\ DateLeq(targetDate, PTORequests[id].endDate)}
    IN  IF matching = {} THEN {<<>>} ELSE {<<id>> : id \in matching}

WindowInputs ==
    { << <<>>, <<>> >>,
      << <<MkDate(2025, 1, 3, 0)>>, <<MkDate(2025, 1, 3, EndOfDayMs)>> >>,
      << <<MkDate(2024, 12, 20, 0)>>, <<MkDate(2025, 1, 5, EndOfDayMs)>> >> }
DateInputs == {MkDate(2025, 1, 3, 12 * 3600000), MkDate(2025, 1, 6, 0), InvalidDate}
MonthInputs == {<<2025, 0>>, <<2024, 11>>}

CalFrame == UNCHANGED <<goals, tasks, timesheets, entries, appraisals, users, nextId, now,
                        faulty, weekIn, weekOut, requests>>

GetMyCalendarEvents ==
    /\ budget > 0
    /\ \E caller \in Sessions, window \in WindowInputs,
          fault \in Faults({"findTasks", "findAppraisals", "findPTO"}) :
        LET r == getMyCalendarEvents(caller, window[1], window[2], fault) IN
        /\ Call("getMyCalendarEvents", caller, window, fault,
                IF r.success \/ caller \notin Users THEN "none" ELSE fault, r)
        /\ CalFrame

GetEventsForDate ==
    /\ budget > 0
    /\ \E caller \in Sessions, date \in DateInputs, fault \in Faults({"findTasks"}) :
        LET r == getEventsForDate(caller, date, fault) IN
        /\ Call("getEventsForDate", caller, <<date>>, fault,
                IF date = InvalidDate \/ caller \notin Users THEN "none" ELSE fault, r)
        /\ CalFrame

GetUpcomingEvents ==
    /\ budget > 0
    /\ \E caller \in Sessions, fault \in Faults({"findPTO"}) :
        LET r == getUpcomingEvents(caller, fault) IN
        /\ Call("getUpcomingEvents", caller, <<>>, fault,
                IF caller \notin Users THEN "none" ELSE fault, r)
        /\ CalFrame

GetMonthEvents ==
    /\ budget > 0
    /\ \E caller \in Sessions, ym \in MonthInputs, fault \in Faults({"findAppraisals"}) :
        LET r == getMonthEvents(caller, ym[1], ym[2], fault) IN
        /\ Call("getMonthEvents", caller, ym, fault,
                IF caller \notin Users THEN "none" ELSE fault, r)
        /\ CalFrame

GetCalendarStats ==
    /\ budget > 0
    /\ \E caller \in Sessions, fault \in Faults({"count"}) :
        LET r == getCalendarStats(caller, fault) IN
        /\ Call("getCalendarStats", caller, <<>>, fault,
                IF caller \notin Users THEN "none" ELSE fault, r)
        /\ CalFrame

CheckPTOForDate ==
    /\ budget > 0
    /\ \E caller \in Sessions, date \in DateInputs, fault \in Faults({"findFirst"}) :
       \E found \in findFirstPTO(caller, date) :
        LET r == checkPTOForDate(caller, date, found, fault) IN
        /\ Call("checkPTOForDate", caller, <<date>>, fault,
                IF date = InvalidDate \/ caller \notin Users THEN "none" ELSE fault, r)
        /\ CalFrame

CalendarActions ==
    \/ GetMyCalendarEvents \/ GetEventsForDate \/ GetUpcomingEvents
    \/ GetMonthEvents \/ GetCalendarStats \/ CheckPTOForDate

(***************************************************************************)
(* Specifications.                                                         *)
(***************************************************************************)
Tables == {"goal", "task", "timesheet", "entry", "appraisal"}

EmptyStore ==
    /\ goals = << >>
    /\ tasks = << >>
    /\ timesheets = << >>
    /\ entries = << >>
    /\ appraisals = << >>
    /\ users = [u \in Users |-> [preferences |-> <<>>, notificationSettings |-> <<>>]]
    /\ nextId = [t \in Tables |-> 1]
    /\ lastCall = NoCall
    /\ weekIn = <<>>
    /\ weekOut = <<>>
    /\ requests = <<>>

\* the goals pages
InitGoals ==
    /\ EmptyStore
    /\ now = 1
    /\ faulty \in BOOLEAN
    /\ budget = IF faulty THEN MaxFaultyCalls ELSE MaxAreaCalls
NextGoals == GoalActions
SpecGoals == InitGoals /\ [][NextGoals]_vars

\* the timesheet page, with the manager's approval and the passing of time
InitTimesheets ==
    /\ EmptyStore
    /\ now = 1
    /\ faulty \in BOOLEAN
    /\ budget = IF faulty THEN MaxFaultyCalls ELSE MaxAreaCalls
NextTimesheets == TimesheetActions \/ ApproveTimesheet \/ Tick
SpecTimesheets == InitTimesheets /\ [][NextTimesheets]_vars

\* the my-work page
InitTasks ==
    /\ EmptyStore
    /\ now = 1
    /\ faulty \in BOOLEAN
    /\ budget = IF faulty THEN MaxFaultyCalls ELSE MaxAreaCalls
NextTasks == TaskActions \/ Tick
SpecTasks == InitTasks /\ [][NextTasks]_vars

\* the settings page
InitSettings ==
    /\ EmptyStore
    /\ now = 1
    /\ faulty \in BOOLEAN
    /\ budget = IF faulty THEN MaxFaultyCalls ELSE MaxAreaCalls
NextSettings == SettingsActions
SpecSettings == InitSettings /\ [][NextSettings]_vars

\* the calendar page, fed by the tasks and the appraisals of the store
InitCalendar ==
    /\ EmptyStore
    /\ now = 1
    /\ faulty \in BOOLEAN
    /\ budget = IF faulty THEN MaxFaultyCalls ELSE MaxAreaCalls
NextCalendar == CalendarActions \/ CreateTask \/ GetCurrentAppraisal \/ Tick
SpecCalendar == InitCalendar /\ [][NextCalendar]_vars

\* the appraisal page, with the manager's closing of a review and the passing of time
InitAppraisals ==
    /\ EmptyStore
    /\ now = 1
    /\ faulty \in BOOLEAN
    /\ budget = IF faulty THEN MaxFaultyCalls ELSE MaxAreaCalls
NextAppraisals == AppraisalActions \/ CompleteAppraisal \/ Tick
SpecAppraisals == InitAppraisals /\ [][NextAppraisals]_vars

\* the dashboards: the five statistics handlers over a store that the handlers
\* creating goals, tasks, timesheet entries and reviews fill
InitStats ==
    /\ EmptyStore
    /\ now = 1
    /\ faulty \in BOOLEAN
    /\ budget = IF faulty THEN MaxFaultyCalls ELSE MaxAreaCalls
NextStats ==
    \/ GetMyTaskStats \/ GetGoalStats \/ GetTimesheetStats \/ GetAppraisalStats
    \/ GetCalendarStats
    \/ CreateTask \/ CreateGoal \/ AddTimesheetEntry \/ GetCurrentAppraisal
SpecStats == InitStats /\ [][NextStats]_vars

\* the owner's path through a review: fetch or create it, write the self-review,
\* submit it, with as many calls as the path and one edit after it take
MaxReviewCalls == 4
InitReview ==
    /\ EmptyStore
    /\ now = 1
    /\ faulty = FALSE
    /\ budget = MaxReviewCalls
NextReview == GetCurrentAppraisal \/ UpdateSelfReview \/ SubmitAppraisal
SpecReview == InitReview /\ [][NextReview]_vars

\* the whole application: every handler of every page on one store, the backing
\* services healthy
Init ==
    /\ EmptyStore
    /\ now = 1
    /\ faulty = FALSE
    /\ budget = MaxCalls
Next ==
    \/ GoalActions
    \/ TaskActions
    \/ TimesheetActions
    \/ AppraisalActions
    \/ CalendarActions
    \/ SettingsActions
    \/ ApproveTimesheet
    \/ CompleteAppraisal
    \/ Tick
Spec == Init /\ [][Next]_vars

(***************************************************************************)
(* The week computation on its own: the two handlers' Monday-to-Sunday     *)
(* arithmetic applied to any day of the years covered, at the first, a     *)
(* middle and the last millisecond of the day.                             *)
(***************************************************************************)
WeekDates ==
    { MkDate(y, m, d, ms) : y \in 2024 .. (2024 + MaxYears - 1), m \in 1 .. 12,
                            d \in 1 .. 31, ms \in {0, 10 * 3600000, EndOfDayMs} }
WeekInputs == {dt \in WeekDates : dt.d <= DaysInMonth(dt.y, dt.m)}

WeekFrame == UNCHANGED <<goals, tasks, timesheets, entries, appraisals, users, nextId, now,
                         faulty, weekIn, requests>>

\* lines 24-32 of getCurrentTimesheet with weekIn as new Date()
WeekOfToday ==
    /\ budget > 0
    /\ Call("getCurrentTimesheet", NoUser, weekIn, "none", "none", Ok(<<>>))
    /\ weekOut' = << getCurrentTimesheetWeek(weekIn[1]) >>
    /\ WeekFrame

\* lines 117-125 of addTimesheetEntry with weekIn as new Date(data.date)
WeekOfEntryDate ==
    /\ budget > 0
    /\ Call("addTimesheetEntry", NoUser, weekIn, "none", "none", Ok(<<>>))
    /\ weekOut' = << addTimesheetEntryWeek(weekIn[1]) >>
    /\ WeekFrame

InitWeek ==
    /\ goals = << >> /\ tasks = << >> /\ timesheets = << >>
    /\ entries = << >> /\ appraisals = << >>
    /\ users = [u \in Users |-> [preferences |-> <<>>, notificationSettings |-> <<>>]]
    /\ nextId = [t \in Tables |-> 1]
    /\ lastCall = NoCall
    /\ now = 1
    /\ faulty = FALSE
    /\ budget = 1
    /\ weekIn \in {<<dt>> : dt \in WeekInputs}
    /\ weekOut = <<>>
    /\ requests = <<>>
NextWeek == WeekOfToday \/ WeekOfEntryDate
SpecWeek == InitWeek /\ [][NextWeek]_vars

(***************************************************************************)
(* Overlapping requests.  A handler runs until an await and is suspended   *)
(* there while the store works; other requests run meanwhile.  The three   *)
(* fetch-or-create handlers are cut at their awaits of the store: the      *)
(* lookup of the period's record, the create that follows a lookup that    *)
(* found nothing, and the rest of the handler.  pc names the await a       *)
(* request is suspended at; sum and result hold what a request has read    *)
(* from an aggregate and what it is going to return.  create inserts a row *)
(* whatever rows exist: the store enforces no uniqueness of (user,         *)
(* period).                                                                *)
(***************************************************************************)
MaxRequests == 2
Requests == 1 .. MaxRequests

Idle == [op |-> "none", caller |-> NoUser, pc |-> "idle", data |-> <<>>, key |-> <<>>,
         found |-> <<>>, sum |-> <<>>, result |-> <<>>]

Suspended(op, caller, pc, data, key, found) ==
    [op |-> op, caller |-> caller, pc |-> pc, data |-> data, key |-> key, found |-> found,
     sum |-> <<>>, result |-> <<>>]

\* the payloads that pass the validation of addTimesheetEntry
ValidEntryInputs ==
    {data \in AddEntryInputs :
        data.date # <<>> /\ data.projectId # "" /\ data.hours > 0 /\ data.hours <= 24}

RaceFrame == UNCHANGED <<goals, tasks, users, now, faulty, weekIn, weekOut>>

\* getCurrentTimesheet up to its findFirst: the session and the week of today
BeginGetCurrentTimesheet ==
    \E r \in Requests, caller \in Users :
        /\ requests[r].pc = "idle"
        /\ requests' = [requests EXCEPT ![r] =
                            Suspended("getCurrentTimesheet", caller, "findFirst", <<>>,
                                      <<getCurrentTimesheetWeek(Today)>>, <<>>)]
        /\ UNCHANGED <<timesheets, entries, appraisals, nextId, lastCall, budget>>
        /\ RaceFrame

\* addTimesheetEntry up to its findFirst: the session, the validation and the week
\* of the entry's date
BeginAddTimesheetEntry ==
    \E r \in Requests, caller \in Users, data \in ValidEntryInputs :
        /\ requests[r].pc = "idle"
        /\ requests' = [requests EXCEPT ![r] =
                            Suspended("addTimesheetEntry", caller, "findFirst", <<data>>,
                                      <<addTimesheetEntryWeek(data.date[1])>>, <<>>)]
        /\ UNCHANGED <<timesheets, entries, appraisals, nextId, lastCall, budget>>
        /\ RaceFrame

\* getCurrentAppraisal up to its findFirst of the review: the session and the
\* active cycle; with no active cycle it returns null
BeginGetCurrentAppraisal ==
    \E r \in Requests, caller \in Users, activeCycle \in findActiveCycle :
        /\ requests[r].pc = "idle"
        /\ requests' = [requests EXCEPT ![r] =
                            Suspended("getCurrentAppraisal", caller,
                                      IF activeCycle = <<>> THEN "rest" ELSE "findFirst",
                                      <<>>, activeCycle, <<>>)]
        /\ UNCHANGED <<timesheets, entries, appraisals, nextId, lastCall, budget>>
        /\ RaceFrame

\* the findFirst of the period's record answers: the request goes on to create
\* when it found nothing
AwaitFindFirst ==
    \E r \in Requests :
        /\ requests[r].pc = "findFirst"
        /\ \E found \in IF requests[r].op = "getCurrentAppraisal"
                         THEN findFirstAppraisalOfCycle(requests[r].key[1], requests[r].caller)
                         ELSE findFirstTimesheet(requests[r].caller,
                                                 requests[r].key[1].weekStart) :
              requests' = [requests EXCEPT ![r].found = found,
                                           ![r].pc = IF found = <<>> THEN "create"
                                                     ELSE "rest"]
        /\ UNCHANGED <<timesheets, entries, appraisals, nextId, lastCall, budget>>
        /\ RaceFrame

\* the create after a lookup that found nothing answers
AwaitCreate ==
    \E r \in Requests :
        /\ requests[r].pc = "create"
        /\ IF requests[r].op = "getCurrentAppraisal"
           THEN LET made == getCurrentAppraisal(requests[r].caller, requests[r].key,
                                                <<>>, "none")
                IN  /\ appraisals' = made.appraisals
                    /\ nextId' = ApNextId(made)
                    /\ requests' = [requests EXCEPT ![r].found = made.result.data,
                                                    ![r].pc = "rest"]
                    /\ UNCHANGED timesheets
           ELSE /\ timesheets' = createTimesheet(timesheets, requests[r].caller,
                                                 requests[r].key[1])
                /\ nextId' = [nextId EXCEPT !.timesheet = @ + 1]
                /\ requests' = [requests EXCEPT ![r].found = <<nextId.timesheet>>,
                                                ![r].pc = "rest"]
                /\ UNCHANGED appraisals
        /\ UNCHANGED <<entries, lastCall, budget>>
        /\ RaceFrame

\* the rest of the handler, with the record it found or created
Return ==
    \E r \in Requests :
        /\ requests[r].pc = "rest"
        /\ requests' = [requests EXCEPT ![r].pc = "done"]
        /\ IF requests[r].op = "addTimesheetEntry"
           THEN LET rest == addTimesheetEntry(requests[r].caller, requests[r].data[1],
                                              requests[r].found, "none",
                                              CHOOSE t \in Thrown : ~t.isError)
                IN  /\ Call("addTimesheetEntry", requests[r].caller, requests[r].data,
                            "none", "none", rest.result)
                    /\ timesheets' = rest.timesheets
                    /\ entries' = rest.entries
                    /\ nextId' = TsNextId(rest)
           ELSE /\ Call(requests[r].op, requests[r].caller, <<>>, "none", "none",
                        Ok(requests[r].found))
                /\ UNCHANGED <<timesheets, entries, nextId>>
        /\ UNCHANGED appraisals
        /\ RaceFrame

InitRace ==
    /\ goals = << >> /\ tasks = << >> /\ timesheets = << >>
    /\ entries = << >> /\ appraisals = << >>
    /\ users = [u \in Users |-> [preferences |-> <<>>, notificationSettings |-> <<>>]]
    /\ nextId = [t \in Tables |-> 1]
    /\ lastCall = NoCall
    /\ now = 1
    /\ faulty = FALSE
    /\ budget = MaxRequests
    /\ weekIn = <<>>
    /\ weekOut = <<>>
    /\ requests = [r \in Requests |-> Idle]
NextRace ==
    \/ BeginGetCurrentTimesheet \/ BeginAddTimesheetEntry \/ BeginGetCurrentAppraisal
    \/ AwaitFindFirst \/ AwaitCreate \/ Return
SpecRace == InitRace /\ [][NextRace]_vars

(***************************************************************************)
(* logTaskHours as overlapping requests, cut at its two awaits of the      *)
(* store: the findFirst that reads the task and the update that writes     *)
(* the sum computed from what was read.  createTask runs whole.            *)
(***************************************************************************)
MaxRacedTasks == 1

LogRaceFrame == UNCHANGED <<goals, timesheets, entries, appraisals, users, nextId, now,
                            faulty, weekIn, weekOut>>

\* logTaskHours up to its findFirst: the session
BeginLogTaskHours ==
    \E r \in Requests, caller \in Users, taskId \in IdInputs("task"),
       hours \in LogHoursInputs :
        /\ requests[r].pc = "idle"
        /\ requests' = [requests EXCEPT ![r] =
                            Suspended("logTaskHours", caller, "findFirst", <<hours>>,
                                      <<taskId>>, <<>>)]
        /\ UNCHANGED <<tasks, lastCall, budget>>
        /\ LogRaceFrame

\* the findFirst answers with the task as it is now, or with nothing
AwaitFindFirstTask ==
    \E r \in Requests :
        /\ requests[r].op = "logTaskHours"
        /\ requests[r].pc = "findFirst"
        /\ LET task == findFirstTask(requests[r].key[1], requests[r].caller)
           IN  requests' = [requests EXCEPT ![r].found = task,
                                            ![r].pc = IF task = <<>> THEN "return"
                                                      ELSE "update"]
        /\ UNCHANGED <<tasks, lastCall, budget>>
        /\ LogRaceFrame

\* the update writes the hours that were read plus the hours given
AwaitUpdateTask ==
    \E r \in Requests :
        /\ requests[r].op = "logTaskHours"
        /\ requests[r].pc = "update"
        /\ LET currentHours == OrZero(requests[r].found[1].actualHours)
           IN  tasks' = [tasks EXCEPT ![requests[r].key[1]].actualHours =
                                         <<currentHours + requests[r].data[1]>>]
        /\ requests' = [requests EXCEPT ![r].pc = "return"]
        /\ UNCHANGED <<lastCall, budget>>
        /\ LogRaceFrame

\* the handler returns: the refusal when it found no task, the task it wrote
\* otherwise
ReturnLogTaskHours ==
    \E r \in Requests :
        /\ requests[r].op = "logTaskHours"
        /\ requests[r].pc = "return"
        /\ requests' = [requests EXCEPT ![r].pc = "done"]
        /\ Call("logTaskHours", requests[r].caller,
                <<requests[r].key[1], requests[r].data[1]>>, "none", "none",
                IF requests[r].found = <<>> THEN Fail("Task not found or access denied")
                ELSE Ok(<<tasks[requests[r].key[1]]>>))
        /\ UNCHANGED tasks
        /\ LogRaceFrame

InitLogRace ==
    /\ goals = << >> /\ tasks = << >> /\ timesheets = << >>
    /\ entries = << >> /\ appraisals = << >>
    /\ users = [u \in Users |-> [preferences |-> <<>>, notificationSettings |-> <<>>]]
    /\ nextId = [t \in Tables |-> 1]
    /\ lastCall = NoCall
    /\ now = 1
    /\ faulty = FALSE
    /\ budget = MaxRequests + MaxRacedTasks
    /\ weekIn = <<>>
    /\ weekOut = <<>>
    /\ requests = [r \in Requests |-> Idle]
NextLogRace ==
    \/ (nextId.task <= MaxRacedTasks /\ CreateTask)
    \/ BeginLogTaskHours \/ AwaitFindFirstTask \/ AwaitUpdateTask \/ ReturnLogTaskHours
SpecLogRace == InitLogRace /\ [][NextLogRace]_vars

(***************************************************************************)
(* The three entry handlers as overlapping requests.  After its lookups    *)
(* each of them awaits three times: the write of the entry, the aggregate  *)
(* that sums the hours of the timesheet's entries, and the update that     *)
(* writes that sum to the timesheet.  Nothing ties the three together: no  *)
(* transaction, no lock.  addTimesheetEntry reaches its entry write        *)
(* through the lookup and the create of the week's timesheet above.        *)
(* getTimesheetStats overlaps with them: it sends its two aggregates       *)
(* together and each answers at a moment of its own.                       *)
(***************************************************************************)
EntryOps == {"addTimesheetEntry", "updateTimesheetEntry", "deleteTimesheetEntry"}

EntryRaceFrame == UNCHANGED <<goals, tasks, appraisals, users, now, faulty, weekIn, weekOut>>

\* the timesheet a request of an entry handler works on: the one it found or
\* created for addTimesheetEntry, entry.timesheetId for the other two
TimesheetOf(req) ==
    IF req.op = "addTimesheetEntry" THEN req.found[1] ELSE req.found[1].timesheetId

\* updateTimesheetEntry up to its findFirst of the entry: the session
BeginUpdateTimesheetEntry ==
    \E r \in Requests, caller \in Users, entryId \in IdInputs("entry"),
       data \in UpdateEntryInputs :
        /\ requests[r].pc = "idle"
        /\ requests' = [requests EXCEPT ![r] =
                            Suspended("updateTimesheetEntry", caller, "findFirstEntry",
                                      <<data>>, <<entryId>>, <<>>)]
        /\ UNCHANGED <<timesheets, entries, nextId, lastCall, budget>>
        /\ EntryRaceFrame

\* deleteTimesheetEntry up to its findFirst of the entry: the session
BeginDeleteTimesheetEntry ==
    \E r \in Requests, caller \in Users, entryId \in IdInputs("entry") :
        /\ requests[r].pc = "idle"
        /\ requests' = [requests EXCEPT ![r] =
                            Suspended("deleteTimesheetEntry", caller, "findFirstEntry",
                                      <<>>, <<entryId>>, <<>>)]
        /\ UNCHANGED <<timesheets, entries, nextId, lastCall, budget>>
        /\ EntryRaceFrame

\* the findFirst of the entry answers, with the entry and its timesheet as they
\* are now: the handler returns its refusal when there is no such entry of the
\* caller's or when the timesheet is APPROVED
AwaitFindFirstEntry ==
    \E r \in Requests :
        /\ requests[r].pc = "findFirstEntry"
        /\ LET entry == findFirstEntry(requests[r].key[1], requests[r].caller)
               refusal == IF entry = <<>> THEN <<Fail("Entry not found or access denied")>>
                          ELSE IF timesheets[entry[1].timesheetId].status = "APPROVED"
                          THEN <<Fail(IF requests[r].op = "updateTimesheetEntry"
                                      THEN "Cannot edit approved timesheet"
                                      ELSE "Cannot delete from approved timesheet")>>
                          ELSE <<>>
           IN  requests' = [requests EXCEPT ![r].found = entry,
                                            ![r].result = refusal,
                                            ![r].pc = IF refusal = <<>> THEN "rest"
                                                      ELSE "return"]
        /\ UNCHANGED <<timesheets, entries, nextId, lastCall, budget>>
        /\ EntryRaceFrame

\* what the catch block of updateTimesheetEntry and of deleteTimesheetEntry
\* returns when the store throws
EntryWriteFailure(op) ==
    IF op = "updateTimesheetEntry" THEN Fail("Failed to update entry")
    ELSE Fail("Failed to delete entry")

\* the write of the entry answers: create for addTimesheetEntry (after its check
\* of the timesheet's status), update and delete for the other two, which throw
\* when the entry is gone by now
AwaitWriteEntry ==
    \E r \in Requests :
        LET req == requests[r]
            tsId == TimesheetOf(req)
        IN  /\ req.op \in EntryOps
            /\ req.pc = "rest"
            /\ IF req.op = "addTimesheetEntry"
               THEN LET data == req.data[1]
                        entry == [timesheetId |-> tsId, date |-> data.date[1],
                                  projectId |-> data.projectId, hours |-> data.hours,
                                  billable |-> IF data.billable = <<>> THEN FALSE
                                               ELSE data.billable[1]]
                    IN  IF timesheets[tsId].status = "APPROVED"
                        THEN /\ requests' = [requests EXCEPT
                                    ![r].result = <<Fail("Cannot edit approved timesheet")>>,
                                    ![r].pc = "return"]
                             /\ UNCHANGED <<entries, nextId>>
                        ELSE /\ entries' = [id \in DOMAIN entries \cup {nextId.entry} |->
                                               IF id = nextId.entry THEN entry
                                               ELSE entries[id]]
                             /\ nextId' = [nextId EXCEPT !.entry = @ + 1]
                             /\ requests' = [requests EXCEPT ![r].result = <<Ok(<<entry>>)>>,
                                                             ![r].pc = "aggregate"]
               ELSE IF req.key[1] \notin DOMAIN entries
               THEN /\ requests' = [requests EXCEPT
                                        ![r].result = <<EntryWriteFailure(req.op)>>,
                                        ![r].pc = "return"]
                    /\ UNCHANGED <<entries, nextId>>
               ELSE IF req.op = "updateTimesheetEntry"
               THEN /\ entries' = [entries EXCEPT ![req.key[1]] =
                                                     ApplyEntryData(@, req.data[1])]
                    /\ requests' = [requests EXCEPT
                                        ![r].result = <<Ok(<<entries'[req.key[1]]>>)>>,
                                        ![r].pc = "aggregate"]
                    /\ UNCHANGED nextId
               ELSE /\ entries' = [id \in DOMAIN entries \ {req.key[1]} |-> entries[id]]
                    /\ requests' = [requests EXCEPT ![r].result = <<Ok(<<>>)>>,
                                                    ![r].pc = "aggregate"]
                    /\ UNCHANGED nextId
            /\ UNCHANGED <<timesheets, lastCall, budget>>
            /\ EntryRaceFrame

\* the aggregate answers with the sum of the hours of the timesheet's entries as
\* they are now
AwaitAggregate ==
    \E r \in Requests :
        /\ requests[r].op \in EntryOps
        /\ requests[r].pc = "aggregate"
        /\ requests' = [requests EXCEPT
                            ![r].sum = aggregateSumHours(entries, TimesheetOf(requests[r])),
                            ![r].pc = "updateTotal"]
        /\ UNCHANGED <<timesheets, entries, nextId, lastCall, budget>>
        /\ EntryRaceFrame

\* the update of the timesheet writes the sum that the aggregate answered
AwaitUpdateTotal ==
    \E r \in Requests :
        /\ requests[r].op \in EntryOps
        /\ requests[r].pc = "updateTotal"
        /\ timesheets' = [timesheets EXCEPT ![TimesheetOf(requests[r])].totalHours =
                                                OrZero(requests[r].sum)]
        /\ requests' = [requests EXCEPT ![r].pc = "return"]
        /\ UNCHANGED <<entries, nextId, lastCall, budget>>
        /\ EntryRaceFrame

\* the handler returns what it has come to
ReturnEntryWrite ==
    \E r \in Requests :
        /\ requests[r].op \in EntryOps
        /\ requests[r].pc = "return"
        /\ requests' = [requests EXCEPT ![r].pc = "done"]
        /\ Call(requests[r].op, requests[r].caller,
                IF requests[r].op = "addTimesheetEntry" THEN requests[r].data
                ELSE requests[r].key \o requests[r].data,
                "none", "none", requests[r].result[1])
        /\ UNCHANGED <<timesheets, entries, nextId>>
        /\ EntryRaceFrame

\* one of the two aggregates of getTimesheetStats: the sum of the hours of the
\* caller's entries dated in the current month, of the billable ones only for the
\* second; null when no entry matches
aggregateMonthHours(caller, billableOnly) ==
    LET ids == {id \in DOMAIN entries :
                   /\ entries[id].timesheetId \in DOMAIN timesheets
                   /\ timesheets[entries[id].timesheetId].userId = caller
                   /\ DateLeq(StartOfMonth(Today), entries[id].date)
                   /\ (billableOnly => entries[id].billable)}
    IN  IF ids = {} THEN <<>> ELSE <<SumOver(entries, ids)>>

\* the data getTimesheetStats returns for the answers of its two aggregates
StatsOf(totalHours, billableHours) ==
    [totalHours |-> OrZero(totalHours),
     billableHours |-> OrZero(billableHours),
     nonBillableHours |-> OrZero(totalHours) - OrZero(billableHours)]

\* the statistics of the store as it is now
StatsNow(caller) ==
    StatsOf(aggregateMonthHours(caller, FALSE), aggregateMonthHours(caller, TRUE))

\* getTimesheetStats up to its Promise.all: the session and the current month;
\* both aggregates are sent.  found is the answer of the first when it has come,
\* sum the answer of the second; data lists the statistics of the store at the
\* moments of the answers
BeginGetTimesheetStats ==
    \E r \in Requests, caller \in Users :
        /\ requests[r].pc = "idle"
        /\ requests' = [requests EXCEPT ![r] =
                            Suspended("getTimesheetStats", caller, "aggregates",
                                      <<>>, <<>>, <<>>)]
        /\ UNCHANGED <<timesheets, entries, nextId, lastCall, budget>>
        /\ EntryRaceFrame

\* the aggregate of all the hours answers, before or after the other one
AwaitTotalAggregate ==
    \E r \in Requests :
        /\ requests[r].op = "getTimesheetStats"
        /\ requests[r].pc = "aggregates"
        /\ requests[r].found = <<>>
        /\ requests' = [requests EXCEPT
                            ![r].found = <<aggregateMonthHours(requests[r].caller, FALSE)>>,
                            ![r].data = Append(@, StatsNow(requests[r].caller)),
                            ![r].pc = IF requests[r].sum = <<>> THEN "aggregates"
                                      ELSE "return"]
        /\ UNCHANGED <<timesheets, entries, nextId, lastCall, budget>>
        /\ EntryRaceFrame

\* the aggregate of the billable hours answers, before or after the other one
AwaitBillableAggregate ==
    \E r \in Requests :
        /\ requests[r].op = "getTimesheetStats"
        /\ requests[r].pc = "aggregates"
        /\ requests[r].sum = <<>>
        /\ requests' = [requests EXCEPT
                            ![r].sum = <<aggregateMonthHours(requests[r].caller, TRUE)>>,
                            ![r].data = Append(@, StatsNow(requests[r].caller)),
                            ![r].pc = IF requests[r].found = <<>> THEN "aggregates"
                                      ELSE "return"]
        /\ UNCHANGED <<timesheets, entries, nextId, lastCall, budget>>
        /\ EntryRaceFrame

\* Promise.all has both answers: the handler returns the three figures
ReturnGetTimesheetStats ==
    \E r \in Requests :
        /\ requests[r].op = "getTimesheetStats"
        /\ requests[r].pc = "return"
        /\ LET stats == Ok(StatsOf(requests[r].found[1], requests[r].sum[1]))
           IN  /\ requests' = [requests EXCEPT ![r].result = <<stats>>, ![r].pc = "done"]
               /\ Call("getTimesheetStats", requests[r].caller, <<>>, "none", "none", stats)
        /\ UNCHANGED <<timesheets, entries, nextId>>
        /\ EntryRaceFrame

InitEntryRace ==
    /\ goals = << >> /\ tasks = << >> /\ timesheets = << >>
    /\ entries = << >> /\ appraisals = << >>
    /\ users = [u \in Users |-> [preferences |-> <<>>, notificationSettings |-> <<>>]]
    /\ nextId = [t \in Tables |-> 1]
    /\ lastCall = NoCall
    /\ now = 1
    /\ faulty = FALSE
    /\ budget = MaxRequests
    /\ weekIn = <<>>
    /\ weekOut = <<>>
    /\ requests = [r \in Requests |-> Idle]
NextEntryRace ==
    \/ BeginAddTimesheetEntry \/ AwaitFindFirst \/ AwaitCreate
    \/ BeginUpdateTimesheetEntry \/ BeginDeleteTimesheetEntry \/ AwaitFindFirstEntry
    \/ AwaitWriteEntry \/ AwaitAggregate \/ AwaitUpdateTotal \/ ReturnEntryWrite
    \/ BeginGetTimesheetStats \/ AwaitTotalAggregate \/ AwaitBillableAggregate
    \/ ReturnGetTimesheetStats
SpecEntryRace == InitEntryRace /\ [][NextEntryRace]_vars

(***************************************************************************)
(* The properties.  A property about what a call leaves alone compares the *)
(* store before and after the step of the call; lastCall' is the call.     *)
(***************************************************************************)

\* ---- goals ----

\* the call was an updateGoalProgress that wrote the goal it names
ProgressWritten ==
    /\ lastCall'.op = "updateGoalProgress"
    /\ lastCall'.args[1] \in DOMAIN goals
    /\ (lastCall'.result.success \/ goals' # goals)

\* C8: updateGoalProgress stores the given progress clamped to [0, 100] (below 0
\* gives 0, above 100 gives 100, anything else itself), and a goal it stores at
\* progress 100 has status 'completed'.
C8_ProgressClamped ==
    [][ ProgressWritten =>
          LET given  == lastCall'.args[2]
              stored == goals'[lastCall'.args[1]]
          IN  /\ stored.progress = (IF given < 0 THEN 0 ELSE IF given > 100 THEN 100 ELSE given)
              /\ stored.progress \in 0 .. 100
              /\ (stored.progress = 100 => stored.status = "completed") ]_vars

\* an updateGoalProgress given 101 succeeded and left the goal at 100, completed
C8_Witness ==
    /\ lastCall.op = "updateGoalProgress"
    /\ lastCall.result.success
    /\ lastCall.args[2] = 101
    /\ goals[lastCall.args[1]].progress = 100
    /\ goals[lastCall.args[1]].status = "completed"

\* C9: when the clamped progress is below 100, updateGoalProgress makes the status
\* 'in-progress' exactly when the clamped progress is above 0 and the status was
\* 'active', leaves the status as it was otherwise, and never turns a status
\* that was not 'active' into 'active'.
C9_StatusBelowHundred ==
    [][ ProgressWritten =>
          LET before == goals[lastCall'.args[1]]
              after  == goals'[lastCall'.args[1]]
          IN  /\ after.progress < 100 =>
                    after.status = (IF after.progress > 0 /\ before.status = "active"
                                    THEN "in-progress" ELSE before.status)
              /\ (after.status = "active" => before.status = "active") ]_vars

\* an updateGoalProgress took a goal that was past 'active' back to progress 0
\* and its status did not go back to 'active'
C9_Witness ==
    /\ lastCall.op = "updateGoalProgress"
    /\ lastCall.result.success
    /\ lastCall.args[2] <= 0
    /\ goals[lastCall.args[1]].progress = 0
    /\ goals[lastCall.args[1]].status \in {"in-progress", "completed"}

\* ---- timesheets ----

\* the hours of the entries of timesheet t among the entries numbered 1 .. n
RECURSIVE HoursUpTo(_, _, _)
HoursUpTo(es, t, n) ==
    IF n = 0 THEN 0
    ELSE (IF n \in DOMAIN es /\ es[n].timesheetId = t THEN es[n].hours ELSE 0)
         + HoursUpTo(es, t, n - 1)

\* the timesheet an entry call is about: the one the new entry went to, or the
\* one that held the entry named
ParentOfCall ==
    IF lastCall'.op = "addTimesheetEntry"
    THEN entries'[nextId.entry].timesheetId
    ELSE entries[lastCall'.args[1]].timesheetId

\* C3: after every successful addTimesheetEntry, updateTimesheetEntry and
\* deleteTimesheetEntry the parent timesheet's totalHours is the sum of the hours
\* of the entries it then has, 0 when it has none.
C3_TotalHoursIsSum ==
    [][ (/\ lastCall'.op \in {"addTimesheetEntry", "updateTimesheetEntry",
                              "deleteTimesheetEntry"}
         /\ lastCall'.result.success)
        => timesheets'[ParentOfCall].totalHours
             = HoursUpTo(entries', ParentOfCall, nextId'.entry) ]_vars

\* a delete succeeded and left its timesheet with an entry and hours above 0
C3_Witness ==
    /\ lastCall.op = "deleteTimesheetEntry"
    /\ lastCall.result.success
    /\ \E t \in DOMAIN timesheets :
          /\ timesheets[t].totalHours > 0
          /\ \E e \in DOMAIN entries : entries[e].timesheetId = t

\* the caller's APPROVED timesheets an entry call is aimed at: the ones whose week
\* holds the new entry's date, or the one that holds the entry named
ApprovedTargets ==
    IF lastCall'.op = "addTimesheetEntry"
    THEN {t \in DOMAIN timesheets :
             /\ lastCall'.args[1].date # <<>>
             /\ timesheets[t].userId = lastCall'.caller
             /\ timesheets[t].status = "APPROVED"
             /\ DateLeq(timesheets[t].weekStart, lastCall'.args[1].date[1])
             /\ DateLeq(lastCall'.args[1].date[1], timesheets[t].weekEnd)}
    ELSE {t \in DOMAIN timesheets :
             /\ lastCall'.args[1] \in DOMAIN entries
             /\ entries[lastCall'.args[1]].timesheetId = t
             /\ timesheets[t].status = "APPROVED"}

\* C4: an addTimesheetEntry, updateTimesheetEntry or deleteTimesheetEntry aimed at
\* a timesheet whose status is APPROVED fails and leaves the entries and the
\* timesheets (so that timesheet's entries and totalHours) as they were.
C4_ApprovedIsFrozen ==
    [][ (/\ lastCall'.op \in {"addTimesheetEntry", "updateTimesheetEntry",
                              "deleteTimesheetEntry"}
         /\ ApprovedTargets # {})
        => /\ ~lastCall'.result.success
           /\ entries' = entries
           /\ timesheets' = timesheets ]_vars

\* the owner's delete of an entry of an approved timesheet was refused and the
\* entry is still there
C4_Witness ==
    /\ lastCall.op = "deleteTimesheetEntry"
    /\ lastCall.result = Fail("Cannot delete from approved timesheet")
    /\ lastCall.args[1] \in DOMAIN entries
    /\ timesheets[entries[lastCall.args[1]].timesheetId].status = "APPROVED"
    /\ timesheets[entries[lastCall.args[1]].timesheetId].userId = lastCall.caller

\* C5: submitTimesheet succeeds only on a DRAFT timesheet of the caller and moves it
\* to SUBMITTED; a submit by the owner of a timesheet that is not DRAFT (so every
\* submit after the first) fails, with 'Timesheet is not in draft status' unless
\* a store call threw, and leaves the timesheets and entries as they were.
C5_SubmitOnlyFromDraft ==
    [][ lastCall'.op = "submitTimesheet" =>
          LET id == lastCall'.args[1] IN
          /\ lastCall'.result.success =>
                /\ id \in DOMAIN timesheets
                /\ timesheets[id].userId = lastCall'.caller
                /\ timesheets[id].status = "DRAFT"
                /\ timesheets'[id].status = "SUBMITTED"
          /\ (/\ id \in DOMAIN timesheets
              /\ timesheets[id].userId = lastCall'.caller
              /\ timesheets[id].status # "DRAFT") =>
                /\ ~lastCall'.result.success
                /\ lastCall'.result.error \in
                      (IF faulty THEN {"Timesheet is not in draft status",
                                       "Failed to submit timesheet"}
                       ELSE {"Timesheet is not in draft status"})
                /\ timesheets' = timesheets
                /\ entries' = entries ]_vars

\* the owner's second submit was refused and the timesheet is still SUBMITTED
C5_Witness ==
    /\ lastCall.op = "submitTimesheet"
    /\ lastCall.result = Fail("Timesheet is not in draft status")
    /\ lastCall.args[1] \in DOMAIN timesheets
    /\ timesheets[lastCall.args[1]].userId = lastCall.caller
    /\ timesheets[lastCall.args[1]].status = "SUBMITTED"

\* ---- appraisals ----

\* the call names a review of the caller's own
OwnReviewCalled ==
    /\ lastCall'.caller \in Users
    /\ lastCall'.args[1] \in DOMAIN appraisals
    /\ appraisals[lastCall'.args[1]].userId = lastCall'.caller

\* C6: submitAppraisal on the caller's own DRAFT review whose selfReview is unset or
\* the empty string fails (with 'Self-review is required before submission'
\* unless a store call threw) and leaves the review as it was: status DRAFT,
\* submittedAt unchanged.
C6_SubmitNeedsSelfReview ==
    [][ (/\ lastCall'.op = "submitAppraisal"
         /\ OwnReviewCalled
         /\ appraisals[lastCall'.args[1]].status = "DRAFT"
         /\ appraisals[lastCall'.args[1]].selfReview \in {<<>>, <<"">>})
        => /\ ~lastCall'.result.success
           /\ lastCall'.result.error \in
                 (IF faulty THEN {"Self-review is required before submission",
                                  "Failed to submit appraisal"}
                  ELSE {"Self-review is required before submission"})
           /\ appraisals'[lastCall'.args[1]].status = "DRAFT"
           /\ appraisals'[lastCall'.args[1]].submittedAt
                 = appraisals[lastCall'.args[1]].submittedAt
           /\ appraisals' = appraisals ]_vars

\* a submit of a DRAFT review whose selfReview had been saved as the empty string
\* was refused
C6_Witness ==
    /\ lastCall.op = "submitAppraisal"
    /\ lastCall.result = Fail("Self-review is required before submission")
    /\ appraisals[lastCall.args[1]].userId = lastCall.caller
    /\ appraisals[lastCall.args[1]].status = "DRAFT"
    /\ appraisals[lastCall.args[1]].selfReview = <<"">>
    /\ appraisals[lastCall.args[1]].submittedAt = <<>>

\* C7: on the caller's own COMPLETED review updateSelfReview and submitAppraisal
\* both fail and leave selfReview, rating, status and submittedAt as they were.
C7_CompletedIsFrozen ==
    [][ (/\ lastCall'.op \in {"updateSelfReview", "submitAppraisal"}
         /\ OwnReviewCalled
         /\ appraisals[lastCall'.args[1]].status = "COMPLETED")
        => /\ ~lastCall'.result.success
           /\ \A f \in {"selfReview", "rating", "status", "submittedAt"} :
                 appraisals'[lastCall'.args[1]][f] = appraisals[lastCall'.args[1]][f]
           /\ appraisals' = appraisals ]_vars

\* an updateSelfReview of the caller's own COMPLETED review was refused
C7_Witness ==
    /\ lastCall.op = "updateSelfReview"
    /\ lastCall.result = Fail("Cannot edit completed appraisal")
    /\ appraisals[lastCall.args[1]].userId = lastCall.caller
    /\ appraisals[lastCall.args[1]].status = "COMPLETED"
    /\ appraisals[lastCall.args[1]].selfReview # <<lastCall.args[2]>>

\* ---- the week ----

\* a [y, m, d, ms] that names a day of the calendar
IsCalendarDate(dt) ==
    /\ dt.m \in 1 .. 12
    /\ dt.d \in 1 .. DaysInMonth(dt.y, dt.m)

\* C10: for a date d with weekday w (0 = Sunday), both handlers' week has weekStart
\* on the day of d less (6 if w = 0, else w - 1) days at 00:00:00.000, which is
\* a Monday at or before d, and weekEnd on weekStart's day plus 6 at
\* 23:59:59.999, which is at or after d: a Sunday goes to the Monday 6 days
\* before it, a Wednesday to the Monday 2 days before it.
C10_WeekIsMondayToSunday ==
    weekOut # <<>> =>
        LET d  == weekIn[1]
            w  == GetDay(d)
            ws == weekOut[1].weekStart
            we == weekOut[1].weekEnd
        IN  /\ IsCalendarDate(ws) /\ IsCalendarDate(we)
            /\ DayNumber(ws) = DayNumber(d) - (IF w = 0 THEN 6 ELSE w - 1)
            /\ ws.ms = 0
            /\ GetDay(ws) = 1
            /\ DateLeq(ws, d)
            /\ DayNumber(we) = DayNumber(ws) + 6
            /\ we.ms = EndOfDayMs
            /\ GetDay(we) = 0
            /\ DateLeq(d, we)
            /\ (w = 0 => DayNumber(ws) = DayNumber(d) - 6)
            /\ (w = 3 => DayNumber(ws) = DayNumber(d) - 2)

\* addTimesheetEntry's week of a Sunday that is the first of a month: the Monday
\* is in the month before
C10_Witness ==
    /\ weekOut # <<>>
    /\ lastCall.op = "addTimesheetEntry"
    /\ GetDay(weekIn[1]) = 0
    /\ weekIn[1].d = 1
    /\ weekOut[1].weekStart.m # weekIn[1].m
    /\ weekOut[1].weekStart.d = DaysInMonth(weekOut[1].weekStart.y, weekOut[1].weekStart.m) - 5

\* ---- every handler ----

\* C1: a call of any handler for which the session resolves no user id returns
\* {success: false, error: 'Unauthorized'} and writes nothing to the store.
C1_NoUserIsUnauthorized ==
    [][ (lastCall'.op \notin EnvOps /\ lastCall'.caller = NoUser)
        => /\ lastCall'.result = Fail("Unauthorized")
           /\ store' = store
           /\ nextId' = nextId ]_vars

\* an addTimesheetEntry with a valid payload and no user id was refused on a store
\* that holds a timesheet and an entry
C1_Witness ==
    /\ lastCall.op = "addTimesheetEntry"
    /\ lastCall.caller = NoUser
    /\ lastCall.args[1].date # <<>> /\ lastCall.args[1].hours = 8
    /\ lastCall.result = Fail("Unauthorized")
    /\ DOMAIN timesheets # {} /\ DOMAIN entries # {}

\* the handlers that look a record up by its id and its owner, with the table of
\* the record and what they answer when the lookup finds nothing
OwnershipScoped ==
    [ updateGoal           |-> "Goal not found or access denied",
      updateGoalProgress   |-> "Goal not found or access denied",
      deleteGoal           |-> "Goal not found or access denied",
      updateTaskStatus     |-> "Task not found or access denied",
      logTaskHours         |-> "Task not found or access denied",
      updateTimesheetEntry |-> "Entry not found or access denied",
      deleteTimesheetEntry |-> "Entry not found or access denied",
      submitTimesheet      |-> "Timesheet not found or access denied",
      updateSelfReview     |-> "Appraisal not found or access denied",
      submitAppraisal      |-> "Appraisal not found or access denied",
      getAppraisalById     |-> "Appraisal not found or access denied" ]

\* the owners of the record a handler's id names: none when there is no such record
OwnersOf(op, id) ==
    IF op \in {"updateGoal", "updateGoalProgress", "deleteGoal"}
    THEN {goals[i].userId : i \in {id} \cap DOMAIN goals}
    ELSE IF op \in {"updateTaskStatus", "logTaskHours"}
    THEN {tasks[i].assigneeId : i \in {id} \cap DOMAIN tasks}
    ELSE IF op \in {"updateTimesheetEntry", "deleteTimesheetEntry"}
    THEN {timesheets[entries[i].timesheetId].userId : i \in {id} \cap DOMAIN entries}
    ELSE IF op = "submitTimesheet"
    THEN {timesheets[i].userId : i \in {id} \cap DOMAIN timesheets}
    ELSE {appraisals[i].userId : i \in {id} \cap DOMAIN appraisals}

\* C2: a call of an ownership-scoped handler by a user with the id of a record that
\* another user owns fails with '<Record> not found or access denied' and leaves
\* that record and all the rest of the store as it was.
C2_OthersRecordsDenied ==
    [][ (/\ lastCall'.op \in DOMAIN OwnershipScoped
         /\ lastCall'.caller \in Users
         /\ OwnersOf(lastCall'.op, lastCall'.args[1]) \ {lastCall'.caller} # {})
        => /\ lastCall'.result = Fail(OwnershipScoped[lastCall'.op])
           /\ store' = store ]_vars

\* u2's deleteGoal of a goal of u1 was refused and the goal is there
C2_Witness ==
    /\ lastCall.op = "deleteGoal"
    /\ lastCall.caller = "u2"
    /\ lastCall.result = Fail("Goal not found or access denied")
    /\ lastCall.args[1] \in DOMAIN goals
    /\ goals[lastCall.args[1]].userId = "u1"

\* ---- tasks ----

\* the hours logged on a task so far: none logged counts as 0
LoggedHours(task) == IF task.actualHours = <<>> THEN 0 ELSE task.actualHours[1]

\* C11: createTask makes a task with actualHours unset; every successful
\* logTaskHours by the assignee adds the hours it is given to the task's
\* actualHours (unset counting as 0) and leaves estimatedHours as it was; and
\* no other successful call changes either field. So after successful logs
\* that follow one another actualHours is the sum of the hours given: 2 then 3
\* gives 5.
C11_LoggedHoursAddUp ==
    [][ /\ (lastCall'.op = "createTask" /\ lastCall'.result.success)
            => tasks'[nextId.task].actualHours = <<>>
        /\ (lastCall'.op = "logTaskHours" /\ lastCall'.result.success)
            => /\ tasks[lastCall'.args[1]].assigneeId = lastCall'.caller
               /\ tasks'[lastCall'.args[1]].actualHours
                     = << LoggedHours(tasks[lastCall'.args[1]]) + lastCall'.args[2] >>
               /\ tasks'[lastCall'.args[1]].estimatedHours
                     = tasks[lastCall'.args[1]].estimatedHours
        /\ \A id \in DOMAIN tasks :
              (lastCall'.result.success
                 /\ ~(lastCall'.op = "logTaskHours" /\ lastCall'.args[1] = id))
              => /\ tasks'[id].actualHours = tasks[id].actualHours
                 /\ tasks'[id].estimatedHours = tasks[id].estimatedHours ]_vars

\* a task made with estimatedHours 5 stands at actualHours 5 after a log of 3 that
\* followed a log of 2
C11_Witness ==
    /\ lastCall.op = "logTaskHours"
    /\ lastCall.result.success
    /\ lastCall.args[2] = 3
    /\ tasks[lastCall.args[1]].actualHours = <<5>>
    /\ tasks[lastCall.args[1]].estimatedHours = <<5>>

\* ---- calendar ----

\* the handlers that answer with a sequence of calendar events
EventListOps == {"getMyCalendarEvents", "getEventsForDate", "getUpcomingEvents", "getMonthEvents"}

\* the last call answered with a sequence of calendar events
EventsReturned == lastCall.op \in EventListOps /\ lastCall.result.success

\* the types of the events of the last answer
EventTypes == {lastCall.result.data[i].type : i \in 1 .. Len(lastCall.result.data)}

\* C12: the events getMyCalendarEvents returns (directly or through the handlers
\* that delegate to it) are in ascending order of date: each event's date is less
\* than or equal to the date of the event after it, task, appraisal and PTO events
\* taken together.
C12_EventsSortedByDate ==
    EventsReturned =>
        \A i \in 1 .. Len(lastCall.result.data) - 1 :
            DateLeq(lastCall.result.data[i].date, lastCall.result.data[i + 1].date)

\* a getMyCalendarEvents answer with events of the three types, the first a PTO day
\* and the last an appraisal, although tasks are fetched first and PTO last
C12_Witness ==
    /\ lastCall.op = "getMyCalendarEvents"
    /\ lastCall.result.success
    /\ EventTypes = {"task", "appraisal", "pto"}
    /\ lastCall.result.data[1].type = "pto"
    /\ lastCall.result.data[Len(lastCall.result.data)].type = "appraisal"
    /\ \E i \in 1 .. Len(lastCall.result.data) - 1 :
          DateLt(lastCall.result.data[i].date, lastCall.result.data[i + 1].date)

\* the window of a getMyCalendarEvents call, from its arguments and the clock
CallStart == IF lastCall.args[1] = <<>> THEN Today ELSE lastCall.args[1][1]
CallEnd == IF lastCall.args[2] = <<>> THEN AddDays(CallStart, 30) ELSE lastCall.args[2][1]

\* the days of a PTO request's span: its start and every following day up to its end
SpanDays(ptoId) ==
    LET pto == PTORequests[ptoId]
    IN  {day \in {AddDays(pto.startDate, k) :
                     k \in 0 .. (DayNumber(pto.endDate) - DayNumber(pto.startDate))} :
           DateLeq(day, pto.endDate)}

\* the positions of the answer that hold the PTO event of a request and a day
PTOEventsFor(ptoId, day) ==
    {i \in 1 .. Len(lastCall.result.data) :
        /\ lastCall.result.data[i].type = "pto"
        /\ lastCall.result.data[i].ref = ptoId
        /\ lastCall.result.data[i].date = day}

\* C13: getMyCalendarEvents expands approved PTO day by day within the window: for
\* every APPROVED request of the caller and every day of its span inside
\* [start, end] the answer holds exactly one 'pto' event, and it holds no 'pto'
\* event for a day outside the window, outside the span or of a request that is
\* not an approved one of the caller; a span that starts before the window and
\* ends after it is no exception.
C13_PTOExpandedByDay ==
    (lastCall.op = "getMyCalendarEvents" /\ lastCall.result.success) =>
        /\ \A ptoId \in DOMAIN PTORequests :
              (PTORequests[ptoId].userId = lastCall.caller /\ PTORequests[ptoId].status = "APPROVED")
              => \A day \in SpanDays(ptoId) :
                    InWindow(day, CallStart, CallEnd)
                    => Cardinality(PTOEventsFor(ptoId, day)) = 1
        /\ \A i \in 1 .. Len(lastCall.result.data) :
              lastCall.result.data[i].type = "pto"
              => /\ PTORequests[lastCall.result.data[i].ref].userId = lastCall.caller
                 /\ PTORequests[lastCall.result.data[i].ref].status = "APPROVED"
                 /\ lastCall.result.data[i].date \in SpanDays(lastCall.result.data[i].ref)
                 /\ InWindow(lastCall.result.data[i].date, CallStart, CallEnd)

\* the same, for the requests that start or end inside the window only
C13_PTOExpandedWhenAnEndInside ==
    (lastCall.op = "getMyCalendarEvents" /\ lastCall.result.success) =>
        /\ \A ptoId \in DOMAIN PTORequests :
              ( /\ PTORequests[ptoId].userId = lastCall.caller
                /\ PTORequests[ptoId].status = "APPROVED"
                /\ \/ InWindow(PTORequests[ptoId].startDate, CallStart, CallEnd)
                   \/ InWindow(PTORequests[ptoId].endDate, CallStart, CallEnd) )
              => \A day \in SpanDays(ptoId) :
                    InWindow(day, CallStart, CallEnd)
                    => Cardinality(PTOEventsFor(ptoId, day)) = 1
        /\ \A i \in 1 .. Len(lastCall.result.data) :
              lastCall.result.data[i].type = "pto"
              => /\ PTORequests[lastCall.result.data[i].ref].userId = lastCall.caller
                 /\ PTORequests[lastCall.result.data[i].ref].status = "APPROVED"
                 /\ lastCall.result.data[i].date \in SpanDays(lastCall.result.data[i].ref)
                 /\ InWindow(lastCall.result.data[i].date, CallStart, CallEnd)

\* the caller's approved span covers the whole window and the answer has no PTO event
C13_CoveringSpanMissed ==
    /\ lastCall.op = "getMyCalendarEvents"
    /\ lastCall.result.success
    /\ \E ptoId \in DOMAIN PTORequests :
          /\ PTORequests[ptoId].userId = lastCall.caller
          /\ PTORequests[ptoId].status = "APPROVED"
          /\ DateLt(PTORequests[ptoId].startDate, CallStart)
          /\ DateLt(CallEnd, PTORequests[ptoId].endDate)
          /\ \E day \in SpanDays(ptoId) : InWindow(day, CallStart, CallEnd)
    /\ "pto" \notin EventTypes

\* the positions of the answer that hold events of a type
EventsOfType(type) ==
    {i \in 1 .. Len(lastCall.result.data) : lastCall.result.data[i].type = type}

\* the caller's tasks that are due inside the window of the call
TasksDueInWindow ==
    {id \in DOMAIN tasks :
        /\ tasks[id].assigneeId = lastCall.caller
        /\ tasks[id].dueDate # <<>>
        /\ InWindow(tasks[id].dueDate[1], CallStart, CallEnd)}

\* one task event, dated at the due date, for each of the caller's tasks due inside
\* the window, and no other task event
TaskEventsExact ==
    /\ \A id \in TasksDueInWindow :
          Cardinality({i \in EventsOfType("task") :
                          /\ lastCall.result.data[i].ref = id
                          /\ lastCall.result.data[i].date = tasks[id].dueDate[1]}) = 1
    /\ \A i \in EventsOfType("task") : lastCall.result.data[i].ref \in TasksDueInWindow
    /\ Cardinality(EventsOfType("task")) = Cardinality(TasksDueInWindow)

\* the appraisal cycles that end inside the window of the call
CyclesEndingInWindow ==
    {c \in DOMAIN Cycles : InWindow(Cycles[c].endDate, CallStart, CallEnd)}

\* the caller's reviews of the cycles that end inside the window of the call
ReviewsEndingInWindow ==
    {id \in DOMAIN appraisals :
        /\ appraisals[id].userId = lastCall.caller
        /\ appraisals[id].cycleId \in CyclesEndingInWindow}

\* C14: for its window getMyCalendarEvents answers with exactly one 'task' event for
\* each task assigned to the caller whose due date lies in the window and exactly
\* one 'appraisal' event for each appraisal cycle whose end date lies in the
\* window, and with no other task or appraisal event.
C14_TaskAndCycleEventsExact ==
    (lastCall.op = "getMyCalendarEvents" /\ lastCall.result.success) =>
        /\ TaskEventsExact
        /\ \A c \in CyclesEndingInWindow :
              Cardinality({i \in EventsOfType("appraisal") :
                              /\ appraisals[lastCall.result.data[i].ref].cycleId = c
                              /\ lastCall.result.data[i].date = Cycles[c].endDate}) = 1
        /\ \A i \in EventsOfType("appraisal") :
              appraisals[lastCall.result.data[i].ref].cycleId \in CyclesEndingInWindow

\* the same with one 'appraisal' event for each review the caller has of a cycle
\* ending in the window, in place of one for each such cycle
C14_TaskAndReviewEventsExact ==
    (lastCall.op = "getMyCalendarEvents" /\ lastCall.result.success) =>
        /\ TaskEventsExact
        /\ \A id \in ReviewsEndingInWindow :
              Cardinality({i \in EventsOfType("appraisal") :
                              /\ lastCall.result.data[i].ref = id
                              /\ lastCall.result.data[i].date
                                     = Cycles[appraisals[id].cycleId].endDate}) = 1
        /\ \A i \in EventsOfType("appraisal") :
              lastCall.result.data[i].ref \in ReviewsEndingInWindow
        /\ Cardinality(EventsOfType("appraisal")) = Cardinality(ReviewsEndingInWindow)

\* a cycle ends inside the window, the caller has no review of it, and the answer,
\* which holds the caller's task, has no appraisal event
C14_CycleWithoutReviewMissed ==
    /\ lastCall.op = "getMyCalendarEvents"
    /\ lastCall.result.success
    /\ CyclesEndingInWindow # {}
    /\ ReviewsEndingInWindow = {}
    /\ EventsOfType("task") # {}
    /\ EventsOfType("appraisal") = {}

\* ---- fetch-or-create ----

\* the timesheets of a table that a user has for the week starting at weekStart
TimesheetsOf(tss, userId, weekStart) ==
    {id \in DOMAIN tss : tss[id].userId = userId /\ tss[id].weekStart = weekStart}

\* the call found the week's one timesheet, or made it: used is the timesheet the
\* call worked with and hours the total a timesheet made by the call is left with
FetchedOrCreated(weekStart, used, hours) ==
    LET before == TimesheetsOf(timesheets, lastCall'.caller, weekStart)
        after  == TimesheetsOf(timesheets', lastCall'.caller, weekStart)
    IN  /\ after = {used}
        /\ before # {} => before = after /\ DOMAIN timesheets' = DOMAIN timesheets
        /\ before = {} => /\ DOMAIN timesheets' = DOMAIN timesheets \cup {used}
                          /\ used \notin DOMAIN timesheets
                          /\ timesheets'[used].status = "DRAFT"
                          /\ timesheets'[used].totalHours = hours

\* C15: fetch-or-create of the week's timesheet is idempotent for calls that do not
\* overlap: after every call the store holds at most one Timesheet for a user and
\* a week start; a successful getCurrentTimesheet or addTimesheetEntry leaves
\* exactly one for the caller's week and works with it (the one that was there,
\* or a new one created DRAFT with totalHours 0, to which addTimesheetEntry then
\* adds its own hours).
C15_OneTimesheetPerWeek ==
    [][ /\ \A a, b \in DOMAIN timesheets' :
              (timesheets'[a].userId = timesheets'[b].userId
                 /\ timesheets'[a].weekStart = timesheets'[b].weekStart) => a = b
        /\ \A id \in DOMAIN timesheets' \ DOMAIN timesheets :
              /\ lastCall'.op \in {"getCurrentTimesheet", "addTimesheetEntry"}
              /\ timesheets'[id].status = "DRAFT"
              /\ \/ timesheets'[id].totalHours = 0
                 \/ /\ lastCall'.op = "addTimesheetEntry"
                    /\ timesheets'[id].totalHours = lastCall'.args[1].hours
        /\ (lastCall'.op = "getCurrentTimesheet" /\ lastCall'.result.success)
              => FetchedOrCreated(getCurrentTimesheetWeek(Today).weekStart,
                                  lastCall'.result.data[1], 0)
        /\ (lastCall'.op = "addTimesheetEntry" /\ lastCall'.result.success)
              => FetchedOrCreated(addTimesheetEntryWeek(lastCall'.args[1].date[1]).weekStart,
                                  entries'[nextId.entry].timesheetId,
                                  lastCall'.args[1].hours) ]_vars

\* a getCurrentTimesheet answered with the one timesheet of the store, which two
\* addTimesheetEntry calls for different days of the week had used before it
C15_Witness ==
    /\ lastCall.op = "getCurrentTimesheet"
    /\ lastCall.result.success
    /\ DOMAIN timesheets = {lastCall.result.data[1]}
    /\ \E e1, e2 \in DOMAIN entries :
          /\ entries[e1].date # entries[e2].date
          /\ entries[e1].timesheetId = lastCall.result.data[1]
          /\ entries[e2].timesheetId = lastCall.result.data[1]

\* ---- faults ----

\* the last step was a call of a handler
HandlerCalled == lastCall.op \notin EnvOps

\* C16: every handler turns every fault, at whatever step it is raised (identity
\* resolution, ownership lookup, mutation, aggregate recompute, cache
\* invalidation), into the envelope {success: false, error: <string>}: no call
\* ends with an exception, a failed call carries an error string, and a call
\* whose identity resolution throws is a failed call.
C16_FaultsBecomeEnvelopes ==
    HandlerCalled =>
        /\ ~lastCall.result.raised
        /\ ~lastCall.result.success => lastCall.result.error # ""
        /\ lastCall.caller = AuthError => ~lastCall.result.success

\* a settings handler whose auth() threw ended with that exception
C16_AuthFaultPropagates ==
    /\ lastCall.op \in {"updateUserPreferences", "updateNotificationSettings", "deleteUserAccount"}
    /\ lastCall.caller = AuthError
    /\ lastCall.result.raised

\* the messages of the Errors the store and the runtime may throw
InternalMessages == {t.message : t \in {x \in Thrown : x.isError}}

\* C17: on an unexpected store or runtime fault the caller receives a generic
\* message only: the error string of a call is the same whatever the message of
\* the fault inside it, so it is never the message of the fault itself.
C17_NoFaultDetailReturned ==
    HandlerCalled => lastCall.result.error \notin InternalMessages

\* an addTimesheetEntry answered with the message of the Error thrown inside it
C17_FaultMessageReturned ==
    /\ lastCall.op = "addTimesheetEntry"
    /\ ~lastCall.result.success
    /\ lastCall.result.error = "connection refused"

\* ---- existence is not told ----

\* C18: not-found and forbidden are one answer: a call of an ownership-scoped
\* handler with an id that names no record and a call with an id that names a
\* record of another user both get the handler's one refusal, the same value in
\* the two cases, and both leave the store as it was and create nothing.
C18_AbsentAndForbiddenAlike ==
    [][ (/\ lastCall'.op \in DOMAIN OwnershipScoped
         /\ lastCall'.caller \in Users
         /\ lastCall'.caller \notin OwnersOf(lastCall'.op, lastCall'.args[1]))
        => /\ lastCall'.result = Fail(OwnershipScoped[lastCall'.op])
           /\ store' = store
           /\ nextId' = nextId ]_vars

\* a getAppraisalById with an id that names no review, in a store that holds a
\* review of another user, got the refusal a call with that review's id gets
C18_Witness ==
    /\ lastCall.op = "getAppraisalById"
    /\ lastCall.caller \in Users
    /\ lastCall.args[1] \notin DOMAIN appraisals
    /\ \E id \in DOMAIN appraisals : appraisals[id].userId # lastCall.caller
    /\ lastCall.result = Fail("Appraisal not found or access denied")

\* ---- statistics ----

StatsOps ==
    {"getMyTaskStats", "getGoalStats", "getTimesheetStats", "getAppraisalStats",
     "getCalendarStats"}

\* C19: the statistics handlers are read-only: a call of getMyTaskStats,
\* getGoalStats, getTimesheetStats, getAppraisalStats or getCalendarStats, whether
\* it succeeds or fails, leaves every record of the store as it was and creates
\* none.
C19_StatsReadOnly ==
    [][ lastCall'.op \in StatsOps => store' = store /\ nextId' = nextId ]_vars

\* a getGoalStats counted a goal of the caller that is not completed, and the goal
\* is still not completed
C19_Witness ==
    /\ lastCall.op = "getGoalStats"
    /\ lastCall.result.success
    /\ lastCall.result.data.total > 0
    /\ lastCall.result.data.completed = 0
    /\ \E id \in DOMAIN goals :
          goals[id].userId = lastCall.caller /\ goals[id].status # "completed"

\* ---- overlapping requests ----

\* C20: at most one record exists per (user, period) when requests overlap:
\* however getCurrentTimesheet and addTimesheetEntry calls of one user for one
\* week interleave, the store holds at most one Timesheet with that (userId,
\* weekStart), and however getCurrentAppraisal calls of one user interleave, at
\* most one AppraisalReview with that (userId, cycleId).
C20_OneRecordPerPeriod ==
    /\ \A a, b \in DOMAIN timesheets :
          (timesheets[a].userId = timesheets[b].userId
             /\ timesheets[a].weekStart = timesheets[b].weekStart) => a = b
    /\ \A a, b \in DOMAIN appraisals :
          (appraisals[a].userId = appraisals[b].userId
             /\ appraisals[a].cycleId = appraisals[b].cycleId) => a = b

\* a getCurrentTimesheet and an addTimesheetEntry of one user for one week have
\* both returned, and the store holds two timesheets of that user and week
C20_TwoTimesheetsForOneWeek ==
    /\ \E r1, r2 \in Requests :
          /\ requests[r1].op = "getCurrentTimesheet" /\ requests[r1].pc = "done"
          /\ requests[r2].op = "addTimesheetEntry" /\ requests[r2].pc = "done"
          /\ requests[r1].caller = requests[r2].caller
          /\ requests[r1].key = requests[r2].key
          /\ requests[r1].found # requests[r2].found
    /\ \E a, b \in DOMAIN timesheets :
          /\ a # b
          /\ timesheets[a].userId = timesheets[b].userId
          /\ timesheets[a].weekStart = timesheets[b].weekStart

\* ---- goals: the stored pair of progress and status ----

\* C21: every goal mutation keeps Goal.status consistent with progress: after any
\* sequence of successful createGoal, updateGoal and updateGoalProgress calls
\* every goal whose stored progress is 100 or more has status 'completed'.
C21_FullProgressIsCompleted ==
    \A id \in DOMAIN goals : goals[id].progress >= 100 => goals[id].status = "completed"

\* a successful updateGoal given progress 100 left the goal at 100 and not completed
C21_UpdateGoalLeavesStatus ==
    /\ lastCall.op = "updateGoal"
    /\ lastCall.result.success
    /\ lastCall.args[2].progress = <<100>>
    /\ goals[lastCall.args[1]].progress = 100
    /\ goals[lastCall.args[1]].status # "completed"

\* C23: goal progress stays in range: after any sequence of createGoal, updateGoal
\* and updateGoalProgress calls every stored goal has a progress between 0 and
\* 100 inclusive.
C23_ProgressInRange ==
    \A id \in DOMAIN goals : goals[id].progress >= 0 /\ goals[id].progress <= 100

\* a successful updateGoal given progress 150 stored 150
C23_UpdateGoalStoresAnyProgress ==
    /\ lastCall.op = "updateGoal"
    /\ lastCall.result.success
    /\ lastCall.args[2].progress = <<150>>
    /\ goals[lastCall.args[1]].progress = 150

\* ---- timesheet entries: the range of hours ----

HoursInRange(hours) == hours > 0 /\ hours <= 24

\* the hours the last call was given, when it was an entry write that names hours
HoursGiven ==
    IF lastCall.op = "addTimesheetEntry" THEN <<lastCall.args[1].hours>>
    ELSE IF lastCall.op = "updateTimesheetEntry" THEN lastCall.args[2].hours
    ELSE <<>>

\* C22: entry hours stay in range: after any sequence of addTimesheetEntry and
\* updateTimesheetEntry calls every stored TimesheetEntry has hours greater than 0
\* and at most 24, and a call given hours outside (0, 24] returns a failure (and
\* so stores nothing).
C22_EntryHoursInRange ==
    /\ \A id \in DOMAIN entries : HoursInRange(entries[id].hours)
    /\ (HoursGiven # <<>> /\ ~HoursInRange(HoursGiven[1])) => ~lastCall.result.success

\* a successful updateTimesheetEntry given 30 hours stored them
C22_UpdateStoresAnyHours ==
    /\ lastCall.op = "updateTimesheetEntry"
    /\ lastCall.result.success
    /\ lastCall.args[2].hours = <<30>>
    /\ entries[lastCall.args[1]].hours = 30

\* ---- failed calls ----

\* C26: a failed call has no effect on the store: whenever a handler returns
\* {success: false} every record is as it was before the call and none was
\* created; addTimesheetEntry, updateTimesheetEntry and deleteTimesheetEntry
\* leave no lazily created timesheet, no written or deleted entry and no stale
\* totalHours behind when a store call throws after an earlier write of the call.
C26_FailedCallWritesNothing ==
    [][ (lastCall'.op \notin EnvOps /\ ~lastCall'.result.success)
        => store' = store /\ nextId' = nextId ]_vars

\* a failed addTimesheetEntry left its timesheet and its entry in the store, the
\* timesheet's totalHours not counting the entry
C26_FailedAddLeftItsWrites ==
    /\ lastCall.op = "addTimesheetEntry"
    /\ ~lastCall.result.success
    /\ \E e \in DOMAIN entries :
          /\ entries[e].hours = lastCall.args[1].hours
          /\ timesheets[entries[e].timesheetId].userId = lastCall.caller
          /\ timesheets[entries[e].timesheetId].totalHours = 0

\* ---- submitted reviews ----

\* C27: a submitted appraisal always carries a self-review: after any sequence of
\* getCurrentAppraisal, updateSelfReview and submitAppraisal calls by the owner
\* every AppraisalReview that submitAppraisal made IN_PROGRESS has a non-empty
\* selfReview and a set submittedAt.
C27_SubmittedHasSelfReview ==
    \A id \in DOMAIN appraisals :
        appraisals[id].status = "IN_PROGRESS"
        => /\ ~NoSelfReview(appraisals[id].selfReview)
           /\ appraisals[id].submittedAt # <<>>

\* the owner's updateSelfReview with the empty string succeeded on a review that
\* was submitted before, which is now IN_PROGRESS with an empty selfReview
C27_SelfReviewEmptiedAfterSubmit ==
    /\ lastCall.op = "updateSelfReview"
    /\ lastCall.result.success
    /\ lastCall.args[2] = ""
    /\ appraisals[lastCall.args[1]].userId = lastCall.caller
    /\ appraisals[lastCall.args[1]].status = "IN_PROGRESS"
    /\ appraisals[lastCall.args[1]].submittedAt # <<>>
    /\ appraisals[lastCall.args[1]].selfReview = <<"">>

\* the same at the step of the submission alone: a successful submitAppraisal
\* leaves the review IN_PROGRESS with a non-empty selfReview and a set submittedAt
C27_SubmittedHasSelfReviewAtSubmit ==
    (lastCall.op = "submitAppraisal" /\ lastCall.result.success)
    => /\ appraisals[lastCall.args[1]].status = "IN_PROGRESS"
       /\ ~NoSelfReview(appraisals[lastCall.args[1]].selfReview)
       /\ appraisals[lastCall.args[1]].submittedAt # <<>>

\* ---- tasks: the sign of the logged hours ----

\* C28: a task's actualHours is never negative and never decreases: after any
\* sequence of logTaskHours calls, whatever number each is given, actualHours is
\* at least 0, and each successful call leaves it greater than or equal to what
\* it was.
C28_LoggedHoursNeverDrop ==
    [][ /\ \A id \in DOMAIN tasks' : LoggedHours(tasks'[id]) >= 0
        /\ (lastCall'.op = "logTaskHours" /\ lastCall'.result.success)
              => LoggedHours(tasks'[lastCall'.args[1]]) >= LoggedHours(tasks[lastCall'.args[1]]) ]_vars

\* a successful logTaskHours given -4 left the task with a negative actualHours
C28_NegativeHoursLogged ==
    /\ lastCall.op = "logTaskHours"
    /\ lastCall.result.success
    /\ lastCall.args[2] = -4
    /\ tasks[lastCall.args[1]].actualHours # <<>>
    /\ tasks[lastCall.args[1]].actualHours[1] < 0

\* ---- account deletion ----

\* C29: when deleteUserAccount answers {success: true, message: 'Account deleted
\* successfully'} to an authenticated caller, the caller's user record is no
\* longer in the store.
C29_DeletedAccountIsGone ==
    (/\ lastCall.op = "deleteUserAccount"
     /\ lastCall.caller \in Users
     /\ lastCall.result.success
     /\ lastCall.result.data.message = "Account deleted successfully")
    => lastCall.caller \notin DOMAIN users

\* deleteUserAccount answered 'Account deleted successfully' to a user whose record,
\* with the preferences written before, is still in the store
C29_AccountStillThere ==
    /\ lastCall.op = "deleteUserAccount"
    /\ lastCall.caller \in Users
    /\ lastCall.result.success
    /\ lastCall.result.data.message = "Account deleted successfully"
    /\ lastCall.caller \in DOMAIN users
    /\ users[lastCall.caller].preferences # <<>>

\* ---- overlapping logs of hours ----

\* the requests that are logTaskHours calls on a task and found it
LogsOn(taskId) ==
    {r \in Requests : /\ requests[r].op = "logTaskHours"
                      /\ requests[r].key = <<taskId>>
                      /\ requests[r].found # <<>>}

RECURSIVE SumLogged(_)
SumLogged(rs) ==
    IF rs = {} THEN 0
    ELSE LET r == CHOOSE x \in rs : TRUE IN requests[r].data[1] + SumLogged(rs \ {r})

\* no request is under way
AllReturned == \A r \in Requests : requests[r].pc \in {"idle", "done"}

\* C25: no logged hours are lost when requests overlap: however two successful
\* logTaskHours calls with hours h1 and h2 on one task interleave, once both have
\* completed the task's actualHours is what it was before them (0 for a new
\* task) plus h1 plus h2.
C25_NoLoggedHoursLost ==
    AllReturned =>
        \A taskId \in DOMAIN tasks :
            LoggedHours(tasks[taskId]) = SumLogged(LogsOn(taskId))

\* two logTaskHours calls on one new task, of 2 and of 3 hours, have both
\* returned its task, and the task stands at less than 5 hours
C25_OneLogOverwritten ==
    /\ AllReturned
    /\ \E r1, r2 \in Requests, taskId \in DOMAIN tasks :
          /\ {r1, r2} \subseteq LogsOn(taskId)
          /\ requests[r1].data = <<2>>
          /\ requests[r2].data = <<3>>
          /\ LoggedHours(tasks[taskId]) < 5
\* ---- concurrent entry writes ----

\* C24: for every interleaving of addTimesheetEntry, updateTimesheetEntry and
\* deleteTimesheetEntry requests, once all of them have returned each timesheet's
\* totalHours equals the sum of the hours of its current entries
C24_TotalMatchesEntriesWhenQuiet ==
    AllReturned =>
        \A id \in DOMAIN timesheets :
            timesheets[id].totalHours = OrZero(aggregateSumHours(entries, id))

\* two requests of entry handlers have returned success for one timesheet and its
\* totalHours is not the sum of the hours of its entries
C24_StaleTotalWritten ==
    /\ \A r \in Requests :
          /\ requests[r].op \in EntryOps
          /\ requests[r].pc = "done"
          /\ requests[r].result[1].success
    /\ \E id \in DOMAIN timesheets :
          /\ \A r \in Requests : TimesheetOf(requests[r]) = id
          /\ timesheets[id].totalHours # OrZero(aggregateSumHours(entries, id))

\* the getTimesheetStats requests that have returned
StatsReturned == {r \in Requests : requests[r].op = "getTimesheetStats"
                                   /\ requests[r].pc = "done"}

\* C30: what getTimesheetStats returns is a consistent snapshot even when an entry
\* write falls between its two aggregates: billableHours is at most totalHours,
\* nonBillableHours is at least 0, and the three figures are those of one state of
\* the store that existed during the call
C30_StatsAreOneSnapshot ==
    \A r \in StatsReturned :
        LET stats == requests[r].result[1].data
        IN  /\ stats.billableHours <= stats.totalHours
            /\ stats.nonBillableHours >= 0
            /\ \E i \in 1 .. Len(requests[r].data) : requests[r].data[i] = stats

\* a getTimesheetStats call has returned more billable hours than hours, while no
\* state of the store at its aggregates had those figures
C30_BillableAboveTotal ==
    \E r \in StatsReturned :
        LET stats == requests[r].result[1].data
        IN  /\ stats.billableHours > stats.totalHours
            /\ stats.nonBillableHours < 0
            /\ \A i \in 1 .. Len(requests[r].data) : requests[r].data[i] # stats

====
